---------------------------- MODULE Spec2Model ----------------------------
(***************************************************************************)
(* A model of the Keikaku tree-walking interpreter (src/compiler):         *)
(* the value model, the environment, the statement / expression evaluator  *)
(* and the generator (sequence) resumption engine of interpreter.c, and    *)
(* the file driver of main.c.                                              *)
(*                                                                         *)
(* Heap objects are modelled by value.  This is exact for the programs     *)
(* modelled here because every place where the C code hands a Value to     *)
(* another owner goes through value_copy (env_get, assign_to_target, the   *)
(* frame pushes and pops); the operators below call value_copy at exactly  *)
(* those places.  An in-place mutation through a pointer (gen->stack,      *)
(* gen->env, interp->...) is modelled by the operator returning the        *)
(* updated object next to the interpreter record.                          *)
(***************************************************************************)
EXTENDS Integers, Sequences, FiniteSets, TLC

VARIABLES
  interp,     \* the Interpreter struct (interpreter.h:189-218) plus observation fields
  phase,      \* position of the driver: "start", "program", "host", "copied", "hung", "faulted", "exited"
  handle,     \* the generator Value held by an embedding host (void when none)
  advances,   \* number of advances made through the handle (host) or through g (program)
  results,    \* the values those advances returned, in order
  exit_code,  \* run_file's return value, -1 while the run has not ended
  subject,    \* the sequence function the program under test uses
  uncaught,   \* a top-level statement of the run has ended with has_error set
  last,       \* what the last step did; for a host call, the state it started from
  lexer       \* the Lexer struct (lexer.h:145-169) and the Token array filled from it

run_vars == <<interp, phase, handle, advances, results, exit_code, subject, uncaught, last>>
vars == <<interp, phase, handle, advances, results, exit_code, subject, uncaught, last, lexer>>

(***************************************************************************)
(* Bounds of the model.                                                    *)
(***************************************************************************)
MaxAdvance == 6  \* advances of one generator handle
MaxRecover == 2  \* attempt/recover statements of one program that bind the error variable
MaxOperand == 7      \* the integer operands a of the program "arith": -7..7
MaxDivisor == 3      \* its divisors b: -3..3 without 0
MaxInstances == 2  \* KeikakuInstance structs one program allocates

(***************************************************************************)
(* Values (interpreter.h:19-62, interpreter.c:141-229).  One record shape  *)
(* per ValueType, the tag spelled as value_type_name prints it.            *)
(***************************************************************************)
value_null == [type |-> "void"]
value_bool(b) == [type |-> "bool", b |-> b]
value_int(n) == [type |-> "int", n |-> n]
value_string(s) == [type |-> "string", s |-> s]
value_list(items) == [type |-> "list", items |-> items]
value_builtin(name) == [type |-> "builtin", name |-> name]
\* value_function: the Function holds the name of its AST_PROTOCOL node, the
\* node, is_sequence and the closure environment.  closure is the chain of
\* scopes from func->closure up to, not including, the global scope: every
\* protocol statement of the modelled programs runs at top level, so its
\* closure is the global scope itself and the chain is empty.
value_function(node) ==
  [type |-> "protocol", name |-> node.name, node |-> node,
   is_sequence |-> node.is_sequence, closure |-> <<>>]
\* a VAL_CLASS points at its KeikakuClass: name, parent (<<>> for NULL, <<c>>
\* for the parent's KeikakuClass c), the entries of cls->methods, and the
\* address cls of the KeikakuClass in interp.classes
value_class(name, parent, methods) ==
  [type |-> "class", name |-> name, parent |-> parent, methods |-> methods, cls |-> 0]
\* a VAL_INSTANCE points at the KeikakuInstance interp.heap[ref]
value_instance(ref) == [type |-> "instance", ref |-> ref]
value_generator(g) == [type |-> "sequence", gen |-> g]

\* A GenFrame after memset(&f, 0, sizeof f): VAL_NULL is enumerator 0.
ZeroFrame == [type |-> "BLOCK", index |-> 0, iterable |-> value_null,
              current |-> 0, end |-> 0, node |-> <<0, "", 0>>]

\* the(S) is the one element of S; the({e : x \in {v}}) is e with x standing
\* for the value of v, which is computed once
the(S) == CHOOSE x \in S : TRUE

RECURSIVE value_copy(_)
RECURSIVE value_copy_items(_, _)
RECURSIVE value_copy_entries(_, _)
RECURSIVE value_copy_stack(_, _)

\* value_copy of the items of a list, in index order.
value_copy_items(items, i) ==
  IF i > Len(items) THEN <<>>
  ELSE <<value_copy(items[i])>> \o value_copy_items(items, i + 1)

\* value_copy/VAL_GENERATOR, lines 443-445: walks src->env->entries from the
\* head and env_defines each into the new scope; env_define prepends, so the
\* copy holds the entries in the opposite order.
value_copy_entries(entries, i) ==
  IF i > Len(entries) THEN <<>>
  ELSE value_copy_entries(entries, i + 1)
       \o <<[entries[i] EXCEPT !.value = value_copy(entries[i].value),
                               !.is_override = FALSE]>>

\* lines 453-459: frames are copied bitwise, only a CYCLE_THROUGH frame's
\* iterable is deep-copied.
value_copy_stack(stack, i) ==
  IF i > Len(stack) THEN <<>>
  ELSE <<IF stack[i].type = "CYCLE_THROUGH"
         THEN [stack[i] EXCEPT !.iterable = value_copy(stack[i].iterable)]
         ELSE stack[i]>> \o value_copy_stack(stack, i + 1)

value_copy(v) ==
  CASE v.type = "list" -> value_list(value_copy_items(v.items, 1))
    [] v.type = "sequence" ->
         \* calloc: sent_value / has_sent / thrown are zero in the copy
         value_generator([func |-> v.gen.func,
                          env |-> value_copy_entries(v.gen.env, 1),
                          status |-> v.gen.status,
                          stack |-> value_copy_stack(v.gen.stack, 1),
                          sent_value |-> value_null,
                          has_sent |-> FALSE])
    [] OTHER -> v

\* a Generator without an environment of its own: the names of the body
\* resolve along the closure, in the scope of the caller
value_generator_new_without_env(func, env) ==
  value_generator([func |-> func, env |-> <<>>, status |-> "suspended",
                   stack |-> <<>>, sent_value |-> value_null, has_sent |-> FALSE])

value_generator_new(func, env) ==
  value_generator([func |-> func, env |-> env, status |-> "suspended",
                   stack |-> <<>>, sent_value |-> value_null, has_sent |-> FALSE])

value_is_truthy(v) ==
  CASE v.type = "void" -> FALSE
    [] v.type = "bool" -> v.b
    [] v.type = "int" -> v.n # 0
    [] v.type = "float" -> v.num # 0
    [] v.type = "string" -> v.s # ""
    [] v.type = "list" -> Len(v.items) > 0
    [] OTHER -> TRUE


(***************************************************************************)
(* Environment (interpreter.h:111-122, interpreter.c:532-620).  A scope is *)
(* its entry list, head first.  An Environment pointer is modelled by the  *)
(* chain it reaches: <<scope, parent scope, ..., global scope>>.            *)
(***************************************************************************)
RECURSIVE env_find(_, _, _)
\* index of the first entry named name at or after position i, 0 if none
env_find(entries, name, i) ==
  IF i > Len(entries) THEN 0
  ELSE IF entries[i].name = name THEN i
  ELSE env_find(entries, name, i + 1)

env_create == <<>>

env_define(env, name, value) ==
  [env EXCEPT ![1] = <<[name |-> name, value |-> value, is_override |-> FALSE]>> \o @]

\* env_set looks in env and in env->parent, no further, and else defines in env
env_set(env, name, value) ==
  LET here == env_find(env[1], name, 1)
      up == IF Len(env) > 1 THEN env_find(env[2], name, 1) ELSE 0
  IN IF here > 0 THEN [env EXCEPT ![1][here].value = value]
     ELSE IF up > 0 THEN [env EXCEPT ![2][up].value = value]
     ELSE env_define(env, name, value)

RECURSIVE class_chain(_)
RECURSIVE env_get(_, _)
env_get(env, name) ==
  LET here == env_find(env[1], name, 1)
  IN IF here > 0 THEN [found |-> TRUE, value |-> value_copy(env[1][here].value)]
     ELSE IF Len(env) > 1 THEN env_get(Tail(env), name)
     ELSE [found |-> FALSE, value |-> value_null]

\* env_destroy(env) frees the entries and the Environment.  A freed scope
\* keeps, behind freed_entry, the bytes it held when it was freed.
freed_entry == [name |-> "", value |-> value_null, is_override |-> FALSE]
is_freed(scope) == scope # <<>> /\ scope[1] = freed_entry

\* env_get(env, name) dereferences a freed Environment: the walk along
\* env->parent reaches one before it has found name
RECURSIVE reads_freed(_, _)
reads_freed(env, name) ==
  IF is_freed(env[1]) THEN TRUE
  ELSE IF env_find(env[1], name, 1) > 0 THEN FALSE
  ELSE IF Len(env) > 1 THEN reads_freed(Tail(env), name)
  ELSE FALSE

\* env_destroy(call_env), seen from the value that leaves the call: the
\* closure of a Function made inside the call passes through call_env, which
\* lies depth scopes above the global scope
env_destroy(val, depth) ==
  IF val.type = "protocol" /\ Len(val.closure) >= depth
  THEN [val EXCEPT !.closure =
          [i \in DOMAIN @ |-> IF i <= Len(@) - depth + 1 /\ ~is_freed(@[i])
                              THEN <<freed_entry>> \o @[i] ELSE @[i]]]
  ELSE val

\* the read of a freed Environment: the build either still finds the bytes
\* (dangling) or the process is ended by the fault
env_deref_in(env, name, I) ==
  IF reads_freed(env, name)
  THEN [I EXCEPT !.dangling = TRUE, !.fault = (@ \/ I.fault_on_freed)]
  ELSE I
env_deref(I, name) == env_deref_in(I.current_env, name, I)

\* env_force_set: env->global is the last scope of the chain
env_force_set(env, name, value) ==
  LET g == Len(env)
      at == env_find(env[g], name, 1)
  IN IF at > 0
     THEN [env EXCEPT ![g][at].value = value, ![g][at].is_override = TRUE]
     ELSE [env EXCEPT ![g] = <<[name |-> name, value |-> value, is_override |-> FALSE]>> \o @]

(***************************************************************************)
(* AST (ast.h).  Every statement node carries id, its address; an          *)
(* ASTNodeArray embedded in a node by <<id, field, index>>.             *)
(* Only the node kinds and fields the modelled programs use are present.    *)
(***************************************************************************)
IntLit(n) == [k |-> "INTEGER", v |-> n]
\* a float literal, as the fraction num / den
\* the strings of the programs that split and join, by their characters
MaxText == 4
Alphabet == {"a", "b", "-"}
Texts == UNION {[1..n -> Alphabet] : n \in 0..MaxText}
Delimiters == {<<"-">>, <<"-", "-">>, <<"-", "b">>}
\* a C string from its characters
RECURSIVE string_of(_)
string_of(cs) == IF cs = <<>> THEN "" ELSE cs[1] \o string_of(Tail(cs))

Slice(object, start, end, step) ==
  [k |-> "SLICE", object |-> object, start |-> start, end |-> end, step |-> step]
FloatLit(num, den) == [k |-> "FLOAT", num |-> num, den |-> den]
BoolLit(b) == [k |-> "BOOL", v |-> b]
StrLit(s) == [k |-> "STRING", v |-> s]
Id(name) == [k |-> "IDENTIFIER", name |-> name]
Bin(op, l, r) == [k |-> "BINARY_OP", op |-> op, left |-> l, right |-> r]
Call(name, args) == [k |-> "CALL", name |-> name, args |-> args]
ListLit(elems) == [k |-> "LIST", elements |-> elems]
Neg(e) == [k |-> "UNARY_OP", op |-> "NEG", operand |-> e]
Index(obj, idx) == [k |-> "INDEX", object |-> obj, index |-> idx]
Member(obj, member) == [k |-> "MEMBER", object |-> obj, member |-> member]
MethodCall(obj, name, args) ==
  [k |-> "METHOD_CALL", object |-> obj, method_name |-> name, args |-> args]
Ascend(name, args) == [k |-> "ASCEND", name |-> name, args |-> args]
Manifest(class_name, args) == [k |-> "MANIFEST", class_name |-> class_name, args |-> args]
Self == [k |-> "SELF"]
Lambda(id, params, body) == [k |-> "LAMBDA", id |-> id, params |-> params, body |-> body]

Block(id, field, i, stmts) == [bid |-> <<id, field, i>>, nodes |-> stmts]
\* the address of the statement node itself, as a frame records it
NodeOf(node) == <<node.id, "node", 0>>
Designate(id, name, e) == [k |-> "DESIGNATE", id |-> id, target |-> name, value |-> e]
Assign(id, name, e) == [k |-> "ASSIGN", id |-> id, target |-> name, value |-> e]
ExprStmt(id, e) == [k |-> "EXPR_STMT", id |-> id, expr |-> e]
\* alternates: a sequence of <<condition, statements>>, one per alternate branch
Foresee(id, cond, body, alternates, otherwise) ==
  [k |-> "FORESEE", id |-> id, condition |-> cond,
   body |-> Block(id, "body", 0, body),
   alternates |-> [i \in 1..Len(alternates) |->
                    [condition |-> alternates[i][1],
                     body |-> Block(id, "alternate", i, alternates[i][2])]],
   otherwise |-> Block(id, "otherwise", 0, otherwise)]
CycleWhile(id, cond, body) ==
  [k |-> "CYCLE_WHILE", id |-> id, condition |-> cond, body |-> Block(id, "body", 0, body)]
CycleThrough(id, var, iterable, body) ==
  [k |-> "CYCLE_THROUGH", id |-> id, var_pattern |-> var, iterable |-> iterable,
   body |-> Block(id, "body", 0, body)]
CycleFromTo(id, var, start, end, body) ==
  [k |-> "CYCLE_FROM_TO", id |-> id, var_pattern |-> var, start |-> start,
   end |-> end, body |-> Block(id, "body", 0, body)]
Yield(id, e) == [k |-> "YIELD", id |-> id, value |-> e]
Break(id) == [k |-> "BREAK", id |-> id]
Continue(id) == [k |-> "CONTINUE", id |-> id]
Delegate(id, e) == [k |-> "DELEGATE", id |-> id, iterable |-> e]
Attempt(id, try, error_var, recover) ==
  [k |-> "ATTEMPT", id |-> id, try_body |-> try, error_var |-> error_var,
   recover_body |-> recover]
\* designate / assign whose target is an AST_MEMBER or AST_INDEX node
AssignTo(id, target, e) == [k |-> "ASSIGN_TO", id |-> id, target |-> target, value |-> e]
Override(id, name, e) == [k |-> "OVERRIDE", id |-> id, name |-> name, value |-> e]
\* alignments: a sequence of <<is_otherwise, values, statements>>
Situation(id, e, alignments) ==
  [k |-> "SITUATION", id |-> id, value |-> e,
   alignments |-> [i \in 1..Len(alignments) |->
                    [is_otherwise |-> alignments[i][1], values |-> alignments[i][2],
                     body |-> Block(id, "alignment", i, alignments[i][3])]]]
\* parent: "" for an entity without inherits; members: AST_PROTOCOL nodes
Entity(id, name, parent, members) ==
  [k |-> "ENTITY", id |-> id, name |-> name, parent |-> parent, members |-> members]
Protocol(id, name, params, body, is_sequence) ==
  [k |-> "PROTOCOL", id |-> id, name |-> name, params |-> params,
   body |-> Block(id, "body", 0, body), is_sequence |-> is_sequence]

(***************************************************************************)
(* The sequence functions of the programs under test.                      *)
(***************************************************************************)
\* sequence fib(): designate a = 0; designate b = 1
\*   cycle while true: yield a; designate t = a + b; a = b; b = t
fib == Protocol(100, "fib", <<>>,
  <<Designate(101, "a", IntLit(0)), Designate(102, "b", IntLit(1)),
    CycleWhile(103, BoolLit(TRUE),
      <<Yield(104, Id("a")), Designate(105, "t", Bin("ADD", Id("a"), Id("b"))),
        Assign(106, "a", Id("b")), Assign(107, "b", Id("t"))>>)>>, TRUE)

\* sequence pairs(): cycle from 0 to 2 as i: cycle from 0 to 2 as j: yield [i, j]
pairs == Protocol(200, "pairs", <<>>,
  <<CycleFromTo(201, "i", IntLit(0), IntLit(2),
      <<CycleFromTo(202, "j", IntLit(0), IntLit(2),
          <<Yield(203, ListLit(<<Id("i"), Id("j")>>))>>)>>)>>, TRUE)

\* sequence nest(): cycle through [10, 20] as a:
\*   designate k = 0
\*   cycle while k < 2: yield a + k; k = k + 1
nest == Protocol(300, "nest", <<>>,
  <<CycleThrough(301, "a", ListLit(<<IntLit(10), IntLit(20)>>),
      <<Designate(302, "k", IntLit(0)),
        CycleWhile(303, Bin("LT", Id("k"), IntLit(2)),
          <<Yield(304, Bin("ADD", Id("a"), Id("k"))),
            Assign(305, "k", Bin("ADD", Id("k"), IntLit(1)))>>)>>)>>, TRUE)

\* sequence count2(): cycle from 0 to 2 as i: yield i
count2 == Protocol(400, "count2", <<>>,
  <<CycleFromTo(401, "i", IntLit(0), IntLit(2), <<Yield(402, Id("i"))>>)>>, TRUE)

\* sequence over_gen(): cycle through count2() as v: yield v + 10; yield v + 20
\*   yield 99
over_gen == Protocol(500, "over_gen", <<>>,
  <<CycleThrough(501, "v", Call("count2", <<>>),
      <<Yield(502, Bin("ADD", Id("v"), IntLit(10))),
        Yield(503, Bin("ADD", Id("v"), IntLit(20)))>>),
    Yield(504, IntLit(99))>>, TRUE)

\* sequence deleg_list(): yield 0; delegate [declare("d"), 1, 2]; yield 3
deleg_list == Protocol(600, "deleg_list", <<>>,
  <<Yield(601, IntLit(0)),
    Delegate(602, ListLit(<<Call("declare", <<StrLit("d")>>), IntLit(1), IntLit(2)>>)),
    Yield(603, IntLit(3))>>, TRUE)

\* sequence deleg_gen(): delegate count2(declare("g")); yield 9
deleg_gen == Protocol(700, "deleg_gen", <<>>,
  <<Delegate(701, Call("count2", <<Call("declare", <<StrLit("g")>>)>>)),
    Yield(702, IntLit(9))>>, TRUE)

\* sequence recv(): designate r = receive(); yield [r, receive()]; yield receive()
recv == Protocol(800, "recv", <<>>,
  <<Designate(801, "r", Call("receive", <<>>)),
    Yield(802, ListLit(<<Id("r"), Call("receive", <<>>)>>)),
    Yield(803, Call("receive", <<>>))>>, TRUE)

\* sequence cond_flip(): designate a = 0
\*   foresee a == 0: a = 1; yield 1; yield 2
cond_flip == Protocol(900, "cond_flip", <<>>,
  <<Designate(901, "a", IntLit(0)),
    Foresee(902, Bin("EQ", Id("a"), IntLit(0)),
      <<Assign(903, "a", IntLit(1)), Yield(904, IntLit(1)), Yield(905, IntLit(2))>>,
      <<>>, <<>>)>>,
  TRUE)

\* sequence empty(): designate z = 0
empty == Protocol(1000, "empty", <<>>, <<Designate(1001, "z", IntLit(0))>>, TRUE)

\* sequence err_gen(): yield 1; designate q = 1 / 0; yield 2
err_gen == Protocol(1100, "err_gen", <<>>,
  <<Yield(1101, IntLit(1)), Designate(1102, "q", Bin("DIV", IntLit(1), IntLit(0))),
    Yield(1103, IntLit(2))>>, TRUE)

\* sequence res_nest(): foresee proceed(count2()) == 0: yield 1; yield 2
res_nest == Protocol(1200, "res_nest", <<>>,
  <<Foresee(1201, Bin("EQ", Call("proceed", <<Call("count2", <<>>)>>), IntLit(0)),
      <<Yield(1202, IntLit(1)), Yield(1203, IntLit(2))>>, <<>>, <<>>)>>, TRUE)

\* sequence shadow(): designate x = 1; designate x = 2; yield x; yield x
shadow == Protocol(1300, "shadow", <<>>,
  <<Designate(1301, "x", IntLit(1)), Designate(1302, "x", IntLit(2)),
    Yield(1303, Id("x")), Yield(1304, Id("x"))>>, TRUE)

Definitions ==
  <<fib, pairs, nest, count2, over_gen, deleg_list, deleg_gen, recv, cond_flip,
    empty, err_gen, res_nest, shadow>>

FuncNames == {Definitions[i].name : i \in 1..Len(Definitions)}



(***************************************************************************)
(* The statements of the programs under test.                              *)
(***************************************************************************)
declare(e) == Call("declare", <<e>>)

\* protocol loop_<kind>_<sig>(): a loop over 0, 1 whose body leaves by sig in
\* the first iteration, followed by declare("after")
LoopKinds == {"while", "from_to", "list", "gen"}
LoopSignals == {"BREAK", "CONTINUE"}
LoopName(kind, sig) == "loop_" \o kind \o "_" \o sig
LoopBase(kind, sig) ==
  3000 + 100 * (CASE kind = "while" -> 0 [] kind = "from_to" -> 1
                  [] kind = "list" -> 2 [] kind = "gen" -> 3)
       + 50 * (IF sig = "BREAK" THEN 0 ELSE 1)
Signal(id, sig) == IF sig = "BREAK" THEN Break(id) ELSE Continue(id)
LoopProtocol(kind, sig) ==
  LET id == LoopBase(kind, sig)
      \* foresee x == 0: break | continue
      \* declare(x)
      body == <<Foresee(id + 3, Bin("EQ", Id("x"), IntLit(0)),
                        <<Signal(id + 4, sig)>>, <<>>, <<>>),
                ExprStmt(id + 5, declare(Id("x")))>>
      after == ExprStmt(id + 9, declare(StrLit("after")))
  IN Protocol(id, LoopName(kind, sig), <<>>,
       CASE kind = "while" ->
              \* designate x = 0 - 1
              \* cycle while x < 1: x = x + 1; <body>
              <<Designate(id + 1, "x", Bin("SUB", IntLit(0), IntLit(1))),
                CycleWhile(id + 2, Bin("LT", Id("x"), IntLit(1)),
                  <<Assign(id + 6, "x", Bin("ADD", Id("x"), IntLit(1)))>> \o body),
                after>>
         [] kind = "from_to" ->
              <<CycleFromTo(id + 2, "x", IntLit(0), IntLit(2), body), after>>
         [] kind = "list" ->
              <<CycleThrough(id + 2, "x", ListLit(<<IntLit(0), IntLit(1)>>), body), after>>
         [] kind = "gen" ->
              <<CycleThrough(id + 2, "x", Call("count2", <<>>), body), after>>,
       FALSE)

LoopDefinitions ==
  <<LoopProtocol("while", "BREAK"), LoopProtocol("while", "CONTINUE"),
    LoopProtocol("from_to", "BREAK"), LoopProtocol("from_to", "CONTINUE"),
    LoopProtocol("list", "BREAK"), LoopProtocol("list", "CONTINUE"),
    LoopProtocol("gen", "BREAK"), LoopProtocol("gen", "CONTINUE")>>

StmtDesignateGen(f) == Designate(2001, "g", Call(f, <<>>))
StmtProceed == ExprStmt(2002, declare(Call("proceed", <<Id("g")>>)))
StmtCycleThrough(f) ==
  CycleThrough(2003, "x", Call(f, <<>>), <<ExprStmt(2004, declare(Id("x")))>>)
StmtTransmit(f) ==
  ExprStmt(2005, declare(Call("transmit", <<Call(f, <<>>), IntLit(5)>>)))
StmtReceive == ExprStmt(2006, declare(Call("receive", <<>>)))
StmtLoop(kind, sig) == ExprStmt(2007, Call(LoopName(kind, sig), <<>>))
StmtError == ExprStmt(2020, Bin("DIV", IntLit(1), IntLit(0)))
StmtAttempt ==
  Attempt(2030,
    <<ExprStmt(2031, Bin("DIV", IntLit(1), IntLit(0))),
      ExprStmt(2032, declare(StrLit("unreached")))>>,
    "err", <<ExprStmt(2033, declare(Id("err")))>>)
StmtDeclare == ExprStmt(2040, declare(StrLit("after")))

\* the member names of the programs that start with '_'
PrivateMembers == {"_v"}

(***************************************************************************)
(* The programs "assign" and "override": assignments to x, and lookups of  *)
(* g, from the global scope (depth 0), a protocol's call frame (depth 1)   *)
(* and a method's call frame (depth 2: call frame, the class's methods,    *)
(* the global scope).  Both start with the entity statement.               *)
(***************************************************************************)
Suites == {"assign", "override", "private", "inherit", "list", "situation", "arith",
           "divzero", "slice", "split", "mismatch", "closure", "entities", "fields",
           "params", "logic", "rise", "equal", "span"}
ScopeVar(f) == IF f = "assign" THEN "x" ELSE "g"
Depths == {0, 1, 2}
AssignedAt(d) == 7 + d
Overridden == IntLit(5)

\* x = 7 + d; declare(x)
AssignBody(id, d) ==
  <<Assign(id + 1, "x", IntLit(AssignedAt(d))), ExprStmt(id + 2, declare(Id("x")))>>
\* protocol set_x(): x = 8; declare(x)
set_x == Protocol(4000, "set_x", <<>>, AssignBody(4000, 1), FALSE)
\* protocol look_g(): declare(g)
look_g == Protocol(4010, "look_g", <<>>, <<ExprStmt(4011, declare(Id("g")))>>, FALSE)
\* protocol shadow_g(): designate g = 0; override g = 5; declare(g)
shadow_g == Protocol(4020, "shadow_g", <<>>,
  <<Designate(4021, "g", IntLit(0)), Override(4022, "g", Overridden),
    ExprStmt(4023, declare(Id("g")))>>, FALSE)
\* protocol override_g(): override g = 5
override_g == Protocol(4030, "override_g", <<>>,
  <<Override(4031, "g", Overridden)>>, FALSE)
\* sequence seq_g(): yield g
seq_g == Protocol(4040, "seq_g", <<>>, <<Yield(4041, Id("g"))>>, TRUE)
\* entity Setter: protocol set(): x = 9; declare(x)   protocol look(): declare(g)
Setter == Entity(4050, "Setter", "",
  <<Protocol(4060, "set", <<>>, AssignBody(4060, 2), FALSE),
    Protocol(4070, "look", <<>>, <<ExprStmt(4071, declare(Id("g")))>>, FALSE)>>)

ScopeDefinitions == <<set_x, look_g, shadow_g, override_g, seq_g>>

StmtDesignateVar(n) == Designate(4100, n, IntLit(1))
StmtAssign(d) ==
  CASE d = 0 -> Assign(4111, "x", IntLit(AssignedAt(0)))
    [] d = 1 -> ExprStmt(4112, Call("set_x", <<>>))
    [] d = 2 -> ExprStmt(4113, MethodCall(Manifest("Setter", <<>>), "set", <<>>))
StmtOverride(d) ==
  IF d = 0 THEN Override(4120, "g", Overridden)
  ELSE ExprStmt(4121, Call("override_g", <<>>))
LookupScopes == {"global", "protocol", "method", "shadowing", "generator"}
StmtLookup(w) ==
  CASE w = "global" -> ExprStmt(4130, declare(Id("g")))
    [] w = "protocol" -> ExprStmt(4131, Call("look_g", <<>>))
    [] w = "method" -> ExprStmt(4132, MethodCall(Manifest("Setter", <<>>), "look", <<>>))
    [] w = "shadowing" -> ExprStmt(4133, Call("shadow_g", <<>>))
    [] w = "generator" ->
         ExprStmt(4134, declare(Call("proceed", <<Call("seq_g", <<>>)>>)))
(***************************************************************************)
(* The program "private": two instances a and b of Box, and reads and      *)
(* writes of the private member _v from top level, from a plain protocol,  *)
(* from a method bound to the other instance, from a method bound to the   *)
(* instance itself through self, and through a parameter ("same").         *)
(***************************************************************************)
\* entity Box:
\*   protocol construct(v): self._v = v
\*   protocol get(): yield self._v         protocol put(v): self._v = v
\*   protocol peek(o): yield o._v          protocol poke(o): o._v = 0
\*   protocol _hid(): yield self._v
\*   protocol own(): yield self._hid()     protocol hitch(o): yield o._hid()
Box == Entity(4200, "Box", "",
  <<Protocol(4210, "construct", <<"v">>,
      <<AssignTo(4211, Member(Self, "_v"), Id("v"))>>, FALSE),
    Protocol(4220, "get", <<>>, <<Yield(4221, Member(Self, "_v"))>>, FALSE),
    Protocol(4230, "put", <<"v">>,
      <<AssignTo(4231, Member(Self, "_v"), Id("v"))>>, FALSE),
    Protocol(4240, "peek", <<"o">>, <<Yield(4241, Member(Id("o"), "_v"))>>, FALSE),
    Protocol(4250, "poke", <<"o">>,
      <<AssignTo(4251, Member(Id("o"), "_v"), IntLit(0))>>, FALSE),
    Protocol(4280, "_hid", <<>>, <<Yield(4281, Member(Self, "_v"))>>, FALSE),
    Protocol(4282, "own", <<>>, <<Yield(4283, MethodCall(Self, "_hid", <<>>))>>, FALSE),
    Protocol(4284, "hitch", <<"o">>,
      <<Yield(4285, MethodCall(Id("o"), "_hid", <<>>))>>, FALSE)>>)
\* protocol spy(o): yield o._v
spy == Protocol(4260, "spy", <<"o">>, <<Yield(4261, Member(Id("o"), "_v"))>>, FALSE)
\* protocol smash(o): o._v = 0
smash == Protocol(4270, "smash", <<"o">>,
  <<AssignTo(4271, Member(Id("o"), "_v"), IntLit(0))>>, FALSE)
\* protocol sneak(o): yield o._hid()
sneak == Protocol(4290, "sneak", <<"o">>,
  <<Yield(4291, MethodCall(Id("o"), "_hid", <<>>))>>, FALSE)
PrivateDefinitions == <<spy, smash, sneak>>

InstanceNames == {"a", "b"}
Constructed(n) == IF n = "a" THEN 1 ELSE 2
AccessFrom == {"top", "protocol", "other", "self", "same"}
AccessKinds == {"read", "write"}
StmtAccess(who, rw) ==
  CASE who = "top" /\ rw = "read" -> ExprStmt(4300, declare(Member(Id("a"), "_v")))
    [] who = "top" /\ rw = "write" ->
         AssignTo(4301, Member(Id("a"), "_v"), IntLit(0))
    [] who = "protocol" /\ rw = "read" ->
         ExprStmt(4302, declare(Call("spy", <<Id("a")>>)))
    [] who = "protocol" /\ rw = "write" -> ExprStmt(4303, Call("smash", <<Id("a")>>))
    [] who = "other" /\ rw = "read" ->
         ExprStmt(4304, declare(MethodCall(Id("b"), "peek", <<Id("a")>>)))
    [] who = "other" /\ rw = "write" ->
         ExprStmt(4305, MethodCall(Id("b"), "poke", <<Id("a")>>))
    [] who = "self" /\ rw = "read" ->
         ExprStmt(4306, declare(MethodCall(Id("a"), "get", <<>>)))
    [] who = "self" /\ rw = "write" ->
         ExprStmt(4307, MethodCall(Id("a"), "put", <<IntLit(0)>>))
    [] who = "same" /\ rw = "read" ->
         ExprStmt(4308, declare(MethodCall(Id("a"), "peek", <<Id("a")>>)))
    [] who = "same" /\ rw = "write" ->
         ExprStmt(4309, MethodCall(Id("a"), "poke", <<Id("a")>>))

\* calls of the private method _hid of a: from top level, from a plain
\* protocol, from a method bound to b, and from a method bound to a
InvokeFrom == {"top", "protocol", "other", "self"}
StmtInvoke(who) ==
  CASE who = "top" -> ExprStmt(4320, declare(MethodCall(Id("a"), "_hid", <<>>)))
    [] who = "protocol" -> ExprStmt(4321, declare(Call("sneak", <<Id("a")>>)))
    [] who = "other" ->
         ExprStmt(4322, declare(MethodCall(Id("b"), "hitch", <<Id("a")>>)))
    [] who = "self" -> ExprStmt(4323, declare(MethodCall(Id("a"), "own", <<>>)))

(***************************************************************************)
(* The program "inherit": entity A, entity B inherits A (in either order), *)
(* an instance a of A and b of B, and calls of their methods.  Before the  *)
(* entity statements the program may define one global: a protocol helper, *)
(* a protocol construct or a variable tag, names no class defines.         *)
(***************************************************************************)
\* entity A:
\*   protocol greet(): yield "A"
\*   protocol up(): yield ascend greet()
A == Entity(4400, "A", "",
  <<Protocol(4410, "greet", <<>>, <<Yield(4411, StrLit("A"))>>, FALSE),
    Protocol(4420, "up", <<>>, <<Yield(4421, Ascend("greet", <<>>))>>, FALSE)>>)
\* entity B inherits A:
\*   protocol greet(): yield (ascend greet()) + "B"
\*   protocol miss(): yield ascend helper()
B == Entity(4430, "B", "A",
  <<Protocol(4440, "greet", <<>>,
      <<Yield(4441, Bin("ADD", Ascend("greet", <<>>), StrLit("B")))>>, FALSE),
    Protocol(4450, "miss", <<>>, <<Yield(4451, Ascend("helper", <<>>))>>, FALSE)>>)

GlobalNames == {"helper", "construct", "tag"}
StmtGlobal(p) ==
  CASE p = "helper" ->
         Protocol(4460, "helper", <<>>, <<Yield(4461, StrLit("global"))>>, FALSE)
    [] p = "construct" ->
         Protocol(4470, "construct", <<>>,
           <<ExprStmt(4471, declare(StrLit("constructed")))>>, FALSE)
    [] p = "tag" -> Designate(4480, "tag", IntLit(1))

CallNames == {"greet", "up", "a_up", "miss", "helper", "tag"}
StmtCall(c) ==
  CASE c = "greet" -> ExprStmt(4500, declare(MethodCall(Id("b"), "greet", <<>>)))
    [] c = "up" -> ExprStmt(4501, declare(MethodCall(Id("b"), "up", <<>>)))
    [] c = "a_up" -> ExprStmt(4502, declare(MethodCall(Id("a"), "up", <<>>)))
    [] c = "miss" -> ExprStmt(4503, declare(MethodCall(Id("b"), "miss", <<>>)))
    [] c = "helper" -> ExprStmt(4504, declare(MethodCall(Id("a"), "helper", <<>>)))
    [] c = "tag" -> ExprStmt(4505, declare(Member(Id("a"), "tag")))

(***************************************************************************)
(* The program "list": designate xs = [1, 2, 3], then xs[i] = 9 for an     *)
(* index inside or outside the list, and declare(xs[i]).                   *)
(***************************************************************************)
Elements == <<1, 2, 3>>
Indices == -1..Len(Elements)
Updated == IntLit(9)
IndexLit(i) == IF i < 0 THEN Neg(IntLit(0 - i)) ELSE IntLit(i)
StmtDesignateList ==
  Designate(4600, "xs", ListLit([k \in 1..Len(Elements) |-> IntLit(Elements[k])]))
StmtIndexAssign(i) == AssignTo(4601, Index(Id("xs"), IndexLit(i)), Updated)
StmtIndexRead(i) == ExprStmt(4602, declare(Index(Id("xs"), IndexLit(i))))

(***************************************************************************)
(* The program "situation": a situation on probe(v) whose alignment values *)
(* are see(1), see(2) and see(2), see(3); probe and see declare their      *)
(* argument before they yield it, so that the output shows the             *)
(* evaluations.  otherwise stands at position 1, 2 or 3 of the alignments, *)
(* or (0) is absent.                                                       *)
(***************************************************************************)
\* protocol probe(v): declare("probe"); yield v
probe == Protocol(4700, "probe", <<"v">>,
  <<ExprStmt(4701, declare(StrLit("probe"))), Yield(4702, Id("v"))>>, FALSE)
\* protocol see(k): declare(k); yield k
see == Protocol(4710, "see", <<"k">>,
  <<ExprStmt(4711, declare(Id("k"))), Yield(4712, Id("k"))>>, FALSE)
SituationDefinitions == <<probe, see>>

Scrutinees == 1..4
OtherwiseAt == 0..3
Aligned == <<<<1, 2>>, <<2, 3>>>>
BodyOf(i) == IF i = 1 THEN "one-two" ELSE "two-three"
Alignments ==
  [i \in 1..Len(Aligned) |->
    <<FALSE, [j \in 1..Len(Aligned[i]) |-> Call("see", <<IntLit(Aligned[i][j])>>)],
      <<ExprStmt(4720 + i, declare(StrLit(BodyOf(i))))>>>>]
OtherwiseAlignment == <<TRUE, <<>>, <<ExprStmt(4730, declare(StrLit("otherwise")))>>>>
\* situation probe(v): alignment see(1), see(2): ... alignment see(2), see(3): ...
\* with otherwise: ... as alignment number at
StmtSituation(v, at) ==
  Situation(4740, Call("probe", <<IntLit(v)>>),
    IF at = 0 THEN Alignments
    ELSE SubSeq(Alignments, 1, at - 1) \o <<OtherwiseAlignment>>
         \o SubSeq(Alignments, at, Len(Alignments)))

(***************************************************************************)
(* The program "arith": declare([a // b * b + a % b, a // b, a % b]) for   *)
(* integer literals a and b, b not 0.                                      *)
(***************************************************************************)
Operands == (0 - MaxOperand)..MaxOperand
Divisors == ((0 - MaxDivisor)..MaxDivisor) \ {0}
StmtArith(a, b) ==
  LET x == IndexLit(a)
      y == IndexLit(b)
  IN ExprStmt(4800, declare(ListLit(
       <<Bin("ADD", Bin("MUL", Bin("INT_DIV", x, y), y), Bin("MOD", x, y)),
         Bin("INT_DIV", x, y), Bin("MOD", x, y)>>)))

(***************************************************************************)
(* The program "divzero": declare(a / z) and declare(a // z) for int and   *)
(* float literals a and the zero divisors 0, 0.0 and -0.0.                 *)
(***************************************************************************)
Numerators == <<IntLit(3), IntLit(0), Neg(IntLit(2)), FloatLit(3, 2), FloatLit(0, 1)>>
ZeroDivisors == <<IntLit(0), FloatLit(0, 1), Neg(FloatLit(0, 1))>>
DivisionOps == {"DIV", "INT_DIV"}
StmtDivZero(op, a, z) == ExprStmt(4900, declare(Bin(op, Numerators[a], ZeroDivisors[z])))
\* declare(a % z)
StmtModZero(a, z) == ExprStmt(4901, declare(Bin("MOD", Numerators[a], ZeroDivisors[z])))

(***************************************************************************)
(* The program "slice": declare(xs[start:end:step]) for a list and a       *)
(* string of four elements.                                                *)
(***************************************************************************)
SliceKinds == {"list", "string"}
SliceStarts == {-1, 0, 1, 2, 3, 4, 5}
SliceEnds == {-5, -1, 0, 1, 2, 3, 5}
SliceSteps == {-2, -1, 0, 1}
Sliced(kind) ==
  IF kind = "list" THEN ListLit(<<IntLit(1), IntLit(2), IntLit(3), IntLit(4)>>)
  ELSE StrLit("abcd")
StmtSlice(kind, start, end, step) ==
  ExprStmt(5000, declare(Slice(Sliced(kind), <<IndexLit(start)>>, <<IndexLit(end)>>,
                               <<IndexLit(step)>>)))

(***************************************************************************)
(* The program "span": declare(span(args)) for one, two or three integer   *)
(* arguments of magnitude at most MaxSpan.                                 *)
(***************************************************************************)
MaxSpan == 2
SpanArg == (0 - MaxSpan)..MaxSpan
SpanArgs == {<<end>> : end \in SpanArg} \cup (SpanArg \X SpanArg)
              \cup (SpanArg \X SpanArg \X SpanArg)
StmtSpan(args) ==
  ExprStmt(5050, declare(Call("span", [k \in DOMAIN args |-> IndexLit(args[k])])))

(***************************************************************************)
(* The program "split": declare(join(split(s, d), d)) for the strings s of *)
(* at most MaxText characters and the delimiters d.                        *)
(***************************************************************************)
StmtSplit(s, d) ==
  ExprStmt(5100, declare(Call("join", <<Call("split", <<StrLit(string_of(s)),
                                                          StrLit(string_of(d))>>),
                                         StrLit(string_of(d))>>)))

(***************************************************************************)
(* The program "mismatch": declare(x op 2) for an operand x that is a      *)
(* list, void, a bool or a protocol.                                       *)
(***************************************************************************)
NumericOps == {"ADD", "SUB", "MUL", "DIV", "INT_DIV", "MOD", "LT", "LE", "GT", "GE"}
NonNumbers == {"list", "void", "bool", "protocol"}
NonNumber(t) ==
  CASE t = "list" -> ListLit(<<IntLit(1)>>)
    [] t = "void" -> Call("receive", <<>>)
    [] t = "bool" -> BoolLit(TRUE)
    [] t = "protocol" -> Id("probe")
\* what the eight bytes of int_val of such an operand may hold
Indeterminate == {0, 5}
StmtMismatch(op, t) == ExprStmt(5200, declare(Bin(op, NonNumber(t), IntLit(2))))

(***************************************************************************)
(* The program "closure":                                                  *)
(*   protocol outer(n): protocol inner(): yield n                          *)
(*                      yield inner                                        *)
(*   protocol maker(n): yield lambda: n                                    *)
(*   designate f = outer(v)   or   designate f = maker(v)                  *)
(*   declare(f())                                                          *)
(***************************************************************************)
outer == Protocol(5300, "outer", <<"n">>,
  <<Protocol(5301, "inner", <<>>, <<Yield(5302, Id("n"))>>, FALSE),
    Yield(5303, Id("inner"))>>, FALSE)
maker == Protocol(5310, "maker", <<"n">>,
  <<Yield(5311, Lambda(5312, <<>>, Id("n")))>>, FALSE)
ClosureDefinitions == <<outer, maker>>
Makers == {"outer", "maker"}
Captured == {5, 6}
StmtCapture(m, v) == Designate(5320, "f", Call(m, <<IntLit(v)>>))
StmtInvokeCaptured == ExprStmt(5321, declare(Call("f", <<>>)))

(***************************************************************************)
(* The program "entities": at most MaxEntities statements                  *)
(*   entity X   or   entity X inherits Y                                   *)
(* in any order, with redefinitions, an entity that names itself and one   *)
(* that names a class defined later or never.                              *)
(***************************************************************************)
MaxEntities == 3
DefinedNames == {"P", "Q"}
ParentNames == {"", "P", "Q", "R"}
StmtDefine(name, parent) == Entity(5400, name, parent, <<>>)

(***************************************************************************)
(* The program "fields":                                                   *)
(*   entity Cell                                                           *)
(*   designate p = 7                                                       *)
(*   designate a = manifest Cell()                                         *)
(*   designate b = manifest Cell()                                         *)
(* and then any of   n.p = v   and   declare(n.p)   for n in a, b.         *)
(***************************************************************************)
Cells == <<Entity(5500, "Cell", "", <<>>),
           Designate(5501, "p", IntLit(7)),
           Designate(5502, "a", Manifest("Cell", <<>>)),
           Designate(5503, "b", Manifest("Cell", <<>>))>>
FieldValues == {1, 2}
StmtFieldWrite(n, v) == AssignTo(5510, Member(Id(n), "p"), IntLit(v))
StmtFieldRead(n) == ExprStmt(5511, declare(Member(Id(n), "p")))

(***************************************************************************)
(* The program "params":                                                   *)
(*   sequence echo(xs): yield xs; yield xs                                 *)
(*   designate xs = <an int, a string or a list>                           *)
(*   designate g = echo(xs)                                                *)
(*   xs = <another value>   or   xs[0] = 9                                 *)
(*   declare(proceed(g))                                                   *)
(***************************************************************************)
echo == Protocol(5600, "echo", <<"xs">>,
  <<Yield(5601, Id("xs")), Yield(5602, Id("xs"))>>, TRUE)
ParamDefinitions == <<echo>>
ArgKinds == {"int", "string", "list"}
Arg(kind) ==
  CASE kind = "int" -> IntLit(4)
    [] kind = "string" -> StrLit("abcd")
    [] kind = "list" -> ListLit(<<IntLit(1), IntLit(2)>>)
OtherArg(kind) ==
  CASE kind = "int" -> IntLit(5)
    [] kind = "string" -> StrLit("")
    [] kind = "list" -> ListLit(<<IntLit(3)>>)
Reassignments == {"assign", "index"}
StmtBindArg(kind) == Designate(5610, "xs", Arg(kind))
StmtCreate == Designate(5611, "g", Call("echo", <<Id("xs")>>))
StmtReassign(kind, how) ==
  IF how = "assign" THEN Assign(5612, "xs", OtherArg(kind))
  ELSE AssignTo(5613, Index(Id("xs"), IntLit(0)), IntLit(9))
StmtReadParam == ExprStmt(5614, declare(Call("proceed", <<Id("g")>>)))

(***************************************************************************)
(* The sequences a host advances to see where a yield resumes: after a     *)
(* call of an ordinary protocol, inside a branch, inside the try body of   *)
(* an attempt, and with an error in the yielded expression.                *)
(***************************************************************************)
\* protocol ret(x): declare(x); yield x
ret == Protocol(6000, "ret", <<"x">>,
  <<ExprStmt(6001, declare(Id("x"))), Yield(6002, Id("x"))>>, FALSE)
\* sequence via_call(): yield ret(1); yield ret(2)
via_call == Protocol(6010, "via_call", <<>>,
  <<Yield(6011, Call("ret", <<IntLit(1)>>)),
    Yield(6012, Call("ret", <<IntLit(2)>>))>>, TRUE)
\* sequence in_else(): designate a = 0
\*   foresee a == 1: yield 7
\*   otherwise: a = 1; yield 1; yield 2
in_else == Protocol(6020, "in_else", <<>>,
  <<Designate(6021, "a", IntLit(0)),
    Foresee(6022, Bin("EQ", Id("a"), IntLit(1)),
      <<Yield(6023, IntLit(7))>>, <<>>,
      <<Assign(6024, "a", IntLit(1)), Yield(6025, IntLit(1)),
        Yield(6026, IntLit(2))>>)>>, TRUE)
\* sequence in_sit(): designate s = 1
\*   situation s: alignment 1: s = 2; yield 1; yield 2
in_sit == Protocol(6030, "in_sit", <<>>,
  <<Designate(6031, "s", IntLit(1)),
    Situation(6032, Id("s"),
      <<<<FALSE, <<IntLit(1)>>,
          <<Assign(6033, "s", IntLit(2)), Yield(6034, IntLit(1)),
            Yield(6035, IntLit(2))>>>>>>)>>, TRUE)
\* sequence in_try(): attempt: yield 1; declare("t"); yield 2
\*   recover e: declare("r")
in_try == Protocol(6040, "in_try", <<>>,
  <<Attempt(6041,
      <<Yield(6042, IntLit(1)), ExprStmt(6043, declare(StrLit("t"))),
        Yield(6044, IntLit(2))>>,
      "e", <<ExprStmt(6045, declare(StrLit("r")))>>)>>, TRUE)
\* sequence loop_try(): attempt: declare("p"); cycle from 0 to 2 as i: yield i
\*   recover e: declare("r")
loop_try == Protocol(6050, "loop_try", <<>>,
  <<Attempt(6051,
      <<ExprStmt(6052, declare(StrLit("p"))),
        CycleFromTo(6053, "i", IntLit(0), IntLit(2), <<Yield(6054, Id("i"))>>)>>,
      "e", <<ExprStmt(6055, declare(StrLit("r")))>>)>>, TRUE)
\* sequence err_yield(): yield 1; yield 1 / 0; yield 3
err_yield == Protocol(6060, "err_yield", <<>>,
  <<Yield(6061, IntLit(1)), Yield(6062, Bin("DIV", IntLit(1), IntLit(0))),
    Yield(6063, IntLit(3))>>, TRUE)

ResumeDefinitions == <<ret, via_call, in_else, in_sit, in_try, loop_try, err_yield>>
ResumeNames == {"via_call", "in_else", "in_sit", "in_try", "loop_try", "err_yield"}

(***************************************************************************)
(* The program "logic": declare(see(l) and see(r)) and declare(see(l) or   *)
(* see(r)), where see declares its argument before it yields it.           *)
(***************************************************************************)
LogicOps == {"AND", "OR"}
LeftOperands == <<IntLit(0), IntLit(1), StrLit(""), ListLit(<<>>)>>
RightOperands == <<StrLit(""), StrLit("r"), IntLit(0)>>
StmtLogic(op, l, r) ==
  ExprStmt(5700, declare(Bin(op, Call("see", <<LeftOperands[l]>>),
                                 Call("see", <<RightOperands[r]>>))))

(***************************************************************************)
(* The program "rise": a chain of three classes, an instance a of Mid and  *)
(* b of Leaf, and designate r = a.m() and designate r = b.m().             *)
(***************************************************************************)
\* entity Root:
\*   protocol m(): yield "R"
Root == Entity(6100, "Root", "",
  <<Protocol(6101, "m", <<>>, <<Yield(6102, StrLit("R"))>>, FALSE)>>)
\* entity Mid inherits Root:
\*   protocol m(): declare("M"); yield ascend m()
Mid == Entity(6110, "Mid", "Root",
  <<Protocol(6111, "m", <<>>,
      <<ExprStmt(6113, declare(StrLit("M"))), Yield(6112, Ascend("m", <<>>))>>,
      FALSE)>>)
\* entity Leaf inherits Mid:
\*   protocol leaf(): yield "L"
Leaf == Entity(6120, "Leaf", "Mid",
  <<Protocol(6121, "leaf", <<>>, <<Yield(6122, StrLit("L"))>>, FALSE)>>)
StmtRise(n) == Designate(6130, "r", MethodCall(Id(n), "m", <<>>))

(***************************************************************************)
(* The program "equal": declare(l == r) and declare(l != r) for strings,   *)
(* lists and an int.                                                       *)
(***************************************************************************)
EqualityOps == {"EQ", "NE"}
Comparands ==
  <<StrLit("ab"), StrLit("cd"), StrLit("1"), IntLit(1),
    ListLit(<<IntLit(1), IntLit(2)>>), ListLit(<<IntLit(1), IntLit(3)>>),
    ListLit(<<StrLit("ab")>>)>>
StmtEqual(op, l, r) == ExprStmt(6200, declare(Bin(op, Comparands[l], Comparands[r])))

EntityNames == {"Setter", "Box", "A", "B", "Root", "Mid", "Leaf"}
StmtEntity(e) ==
  CASE e = "Setter" -> Setter
    [] e = "Box" -> Box
    [] e = "A" -> A
    [] e = "B" -> B
    [] e = "Root" -> Root
    [] e = "Mid" -> Mid
    [] e = "Leaf" -> Leaf
EntitiesOf(f) ==
  CASE f \in {"assign", "override"} -> {"Setter"}
    [] f = "private" -> {"Box"}
    [] f = "inherit" -> {"A", "B"}
    [] f = "rise" -> {"Root", "Mid", "Leaf"}
    [] OTHER -> {}
\* designate n = manifest ...
StmtManifest(f, n) ==
  CASE f = "private" ->
         Designate(4310, n, Manifest("Box", <<IntLit(Constructed(n))>>))
    [] f = "inherit" ->
         Designate(4311, n, Manifest(IF n = "a" THEN "A" ELSE "B", <<>>))
    [] f = "rise" ->
         Designate(6131, n, Manifest(IF n = "a" THEN "Mid" ELSE "Leaf", <<>>))

\* attempt: 1 / 0; declare("unreached")  recover: ...   with no error variable:
\* "anon" recovers with declare("recovered"), "fail" raises in the recover body
RecoverKinds == {"anon", "fail"}
StmtRecover(v) ==
  Attempt(2050,
    <<ExprStmt(2051, Bin("DIV", IntLit(1), IntLit(0))),
      ExprStmt(2052, declare(StrLit("unreached")))>>,
    "",
    IF v = "anon" THEN <<ExprStmt(2053, declare(StrLit("recovered")))>>
    ELSE <<ExprStmt(2054, Id("nowhere"))>>)

(***************************************************************************)
(* The interpreter record.  current_env is the chain reached from          *)
(* interp->current_env; its last scope is interp->global_env.              *)
(* current_gen is <<>> for NULL and <<g>> for a pointer to the Generator g *)
(* being advanced.  out, steps and adv_log observe the run: the argument   *)
(* vectors declare wrote, the number of statements executed, and one entry *)
(* per interpreter_gen_next call.  heap holds the KeikakuInstance structs  *)
(* allocated so far; uninit is the value the next malloc'ed bool that the  *)
(* code reads without having written it turns out to hold.                 *)
(***************************************************************************)
global_env(I) == I.current_env[Len(I.current_env)]
locals(env) == SubSeq(env, 1, Len(env) - 1)
\* interp->current_env = p, for a scope p whose parent chain is closure
enter_env(I, scope, closure) ==
  [I EXCEPT !.current_env = <<scope>> \o closure \o <<global_env(I)>>]
\* a return that leaves interp->current_env at the callee's scope
restore_env_keeps_callee(I, old_env) == I

\* interp->current_env = old_env
restore_env(I, old_env) == [I EXCEPT !.current_env = locals(old_env) \o <<global_env(I)>>]

runtime_error(I, msg) == [I EXCEPT !.has_error = TRUE, !.error_buffer = msg]

gen_push_frame(I, f) == [I EXCEPT !.current_gen[1].stack = Append(@, f)]

\* the frame on top of interp->resume_stack, when resuming
resume_top(I) == I.resume_stack[I.resume_count]
resuming_at(I, type, node) ==
  /\ I.is_resuming
  /\ I.resume_count > 0
  /\ resume_top(I).type = type
  /\ resume_top(I).node = node
\* interp->resume_count--; if (interp->resume_count == 0) interp->is_resuming = false
resume_pop(I) ==
  [I EXCEPT !.resume_count = @ - 1,
            !.is_resuming = IF I.resume_count - 1 = 0 THEN FALSE ELSE @]

\* has_return && current_gen && !has_error: the condition of every frame push
suspending(I) == I.has_return /\ I.current_gen # <<>> /\ ~I.has_error

caller_view(I) ==
  [current_env |-> locals(I.current_env), current_gen |-> I.current_gen,
   is_resuming |-> I.is_resuming, resume_stack |-> I.resume_stack,
   resume_count |-> I.resume_count]

\* The evaluator's functions call one another through do, one operator that
\* dispatches on the name of the function called.
RECURSIVE do(_, _, _)
do_eval_expr(I, node) == do("eval_expr", I, <<node>>)
do_eval_stmt(I, node) == do("eval_stmt", I, <<node>>)
do_exec_block(I, stmts) == do("exec_block", I, <<stmts>>)
do_interpreter_call(I, func, self_val, argv) ==
  do("interpreter_call", I, <<func, self_val, argv>>)
do_interpreter_gen_next(I, gen) == do("interpreter_gen_next", I, <<gen>>)

RECURSIVE eval_list(_, _, _, _)
RECURSIVE exec_block_from(_, _, _)
RECURSIVE eval_stmts(_, _, _, _)
RECURSIVE foresee_alternates(_, _, _)
RECURSIVE cycle_while(_, _)
RECURSIVE cycle_through_list(_, _, _, _)
RECURSIVE cycle_through_gen(_, _, _, _)
RECURSIVE cycle_from_to(_, _, _, _)
RECURSIVE bind_params(_, _, _, _)
RECURSIVE value_equals(_, _)
RECURSIVE situation_match(_, _, _, _, _)
RECURSIVE entity_methods(_, _, _, _)

assign_to_target(I, target, val, is_designate) ==
  IF is_designate
  THEN [I EXCEPT !.current_env = env_define(@, target, value_copy(val))]
  ELSE [I EXCEPT !.current_env = env_set(@, target, value_copy(val))]

\* member[0] == '_'
is_private(member) == member \in PrivateMembers

\* the private member check without the comparison of self with the instance
private_inhibited_outside_methods(I, member, obj) ==
  is_private(member) /\ ~env_get(I.current_env, "self").found

\* the private member check of AST_MEMBER and assign_to_target
private_inhibited(I, member, obj) ==
  LET self_val == env_get(I.current_env, "self")
  IN is_private(member) /\ (~self_val.found \/ self_val.value # obj)

\* the chain env_get and env_set walk from inst->fields
fields_env(inst) == <<inst.fields>> \o inst.fields_parent

\* assign_to_target for an AST_MEMBER target
assign_to_member(I, target, val) ==
  LET obj == do_eval_expr(I, target.object)
      J == obj.I
  IN IF obj.val.type # "instance"
     THEN runtime_error(J, "Only instances have properties.")
     ELSE IF private_inhibited(J, target.member, obj.val)
     THEN runtime_error(J, "Modification of private member inhibited.")
     ELSE LET fields == fields_env(J.heap[obj.val.ref])
              changed == IF env_get(fields, target.member).found
                         THEN env_set(fields, target.member, value_copy(val))
                         ELSE env_define(fields, target.member, value_copy(val))
          IN [J EXCEPT !.heap[obj.val.ref].fields = changed[1],
                       !.heap[obj.val.ref].fields_parent = Tail(changed)]

\* assign_to_target for an AST_INDEX target: obj is the Value eval_expr
\* returned; the item is replaced in obj, and obj is freed
assign_to_index(I, target, val) ==
  LET obj == do_eval_expr(I, target.object)
      idx == do_eval_expr(obj.I, target.index)
      J == idx.I
  IN IF obj.val.type = "list" /\ idx.val.type = "int"
     THEN LET i == idx.val.n
          IN IF i >= 0 /\ i < Len(obj.val.items)
             THEN LET freed == [obj.val EXCEPT !.items[i + 1] = value_copy(val)]
                  IN J
             ELSE runtime_error(J, "List index out of bounds.")
     ELSE runtime_error(J, "Invalid index access.")

(***************************************************************************)
(* Builtins (interpreter.c:627-642, 1246-1277).                            *)
(***************************************************************************)
builtin_declare(I, argv) == [I |-> [I EXCEPT !.out = Append(@, argv)], val |-> value_null]

builtin_proceed(I, argv) ==
  IF Len(argv) < 1 \/ argv[1].type # "sequence" THEN [I |-> I, val |-> value_null]
  ELSE LET r == do_interpreter_gen_next(I, argv[1].gen)
       IN [I |-> r.I, val |-> r.val]

builtin_transmit(I, argv) ==
  IF Len(argv) < 2 \/ argv[1].type # "sequence" THEN [I |-> I, val |-> value_null]
  ELSE LET gen == [argv[1].gen EXCEPT !.sent_value = value_copy(argv[2]),
                                      !.has_sent = TRUE]
           r == do_interpreter_gen_next(I, gen)
       IN [I |-> r.I, val |-> r.val]

\* builtin_receive without the reset of sent_value and has_sent
builtin_receive_keeps_slot(I, argv) ==
  IF I.current_gen # <<>> /\ I.current_gen[1].has_sent
  THEN [I |-> I, val |-> I.current_gen[1].sent_value]
  ELSE [I |-> I, val |-> value_null]

builtin_receive(I, argv) ==
  IF I.current_gen # <<>> /\ I.current_gen[1].has_sent
  THEN [I |-> [I EXCEPT !.current_gen[1].sent_value = value_null,
                        !.current_gen[1].has_sent = FALSE],
        val |-> I.current_gen[1].sent_value]
  ELSE [I |-> I, val |-> value_null]

\* value_to_string without the quotes it puts around a VAL_STRING, which
\* the string concatenation of eval_binary removes again
concat_operand(v) ==
  CASE v.type = "string" -> v.s
    [] v.type = "void" -> "void"
    [] v.type = "int" -> ToString(v.n)
    [] v.type = "sequence" -> "<sequence " \o v.gen.func.name \o ">"

\* strlen and string_val[i]: the characters of the strings the programs hold
string_chars(s) ==
  IF s = "abcd" THEN <<"a", "b", "c", "d">>
  ELSE CHOOSE cs \in Texts : string_of(cs) = s

\* strtok(str, delim) until NULL: the maximal runs of characters that are
\* not among the characters of delim
RECURSIVE strtok(_, _, _)
strtok(str, delim, token) ==
  IF str = <<>> THEN (IF token = <<>> THEN <<>> ELSE <<token>>)
  ELSE IF \E i \in DOMAIN delim : delim[i] = str[1]
  THEN (IF token = <<>> THEN <<>> ELSE <<token>>) \o strtok(Tail(str), delim, <<>>)
  ELSE strtok(Tail(str), delim, Append(token, str[1]))

builtin_split(I, argv) ==
  IF Len(argv) < 2 \/ argv[1].type # "string" \/ argv[2].type # "string"
  THEN [I |-> I, val |-> value_list(<<>>)]
  ELSE LET tokens == strtok(string_chars(argv[1].s), string_chars(argv[2].s), <<>>)
       IN [I |-> I,
           val |-> value_list([i \in DOMAIN tokens |-> value_string(string_of(tokens[i]))])]

\* strcat of the items, with delim before every item but the first
RECURSIVE join_from(_, _, _)
join_from(items, delim, i) ==
  IF i > Len(items) THEN ""
  ELSE (IF i > 1 THEN delim ELSE "") \o concat_operand(items[i])
         \o join_from(items, delim, i + 1)

builtin_join(I, argv) ==
  IF Len(argv) < 2 \/ argv[1].type # "list" \/ argv[2].type # "string"
  THEN [I |-> I, val |-> value_string("")]
  ELSE [I |-> I, val |-> value_string(join_from(argv[1].items, argv[2].s, 1))]

\* the loop of builtin_span from i on:
\*   for (i = start; step > 0 ? i < end : i > end; i += step) push(i)
RECURSIVE span_loop(_, _, _)
span_loop(i, end, step) ==
  IF (IF step > 0 THEN i < end ELSE i > end)
  THEN <<value_int(i)>> \o span_loop(i + step, end, step)
  ELSE <<>>

\* with step = 0 the condition is i > end and i never changes: the loop is
\* entered exactly when start > end and then never left
span_runs_away(start, end, step) ==
  step = 0 /\ start > end

\* start = 0, end = 0, step = 1 unless the arguments are one, two or three
\* integers
builtin_span(I, argv) ==
  LET ints == \A k \in DOMAIN argv : argv[k].type = "int"
      start == IF Len(argv) \in {2, 3} /\ ints THEN argv[1].n ELSE 0
      end == CASE Len(argv) = 1 /\ ints -> argv[1].n
               [] Len(argv) \in {2, 3} /\ ints -> argv[2].n
               [] OTHER -> 0
      step == IF Len(argv) = 3 /\ ints THEN argv[3].n ELSE 1
  IN IF span_runs_away(start, end, step)
     THEN [I |-> [I EXCEPT !.hang = TRUE], val |-> value_null]
     ELSE [I |-> I, val |-> value_list(span_loop(start, end, step))]

call_builtin(I, name, argv) ==
  CASE name = "declare" -> builtin_declare(I, argv)
    [] name = "span" -> builtin_span(I, argv)
    [] name = "split" -> builtin_split(I, argv)
    [] name = "join" -> builtin_join(I, argv)
    [] name = "proceed" -> builtin_proceed(I, argv)
    [] name = "transmit" -> builtin_transmit(I, argv)
    [] name = "receive" -> builtin_receive(I, argv)

(***************************************************************************)
(* Expressions (interpreter.c:1487-1733).                                  *)
(***************************************************************************)
\* The operands are converted to double, the operation is done on doubles
\* and the result converted to int64_t.  The integers of the modelled
\* programs are below 2^31 in magnitude: the double holds them and their
\* sums, differences and products exactly.
\* (int64_t)(a / b): the conversion drops the fraction of the double
\* quotient, so the result is the quotient truncated toward zero
abs(x) == IF x < 0 THEN 0 - x ELSE x
\* the quotient rounded toward minus infinity
quotient_floored(a, b) == IF b > 0 THEN a \div b ELSE (0 - a) \div (0 - b)

quotient(a, b) ==
  IF (a < 0) = (b < 0) THEN abs(a) \div abs(b) ELSE 0 - (abs(a) \div abs(b))
\* C's a % b on int64_t: the remainder has the sign of a
c_remainder(a, b) == IF a < 0 THEN 0 - (abs(a) % abs(b)) ELSE abs(a) % abs(b)


\* A double, as the fraction num / den with den >= 0; den = 0 only for the
\* quotient by zero, which the source never computes.
fraction(num, den) ==
  IF den < 0 THEN [num |-> 0 - num, den |-> 0 - den] ELSE [num |-> num, den |-> den]
value_float(d) == [type |-> "float", num |-> d.num, den |-> d.den]

\* left.type == VAL_FLOAT ? left.data.float_val : (double)left.data.int_val:
\* for a Value that is neither, int_val is a member of the union that was
\* never written, and the read yields I.garbage
as_double(I, v) ==
  CASE v.type = "float" -> fraction(v.num, v.den)
    [] v.type = "int" -> fraction(v.n, 1)
    [] OTHER -> fraction(I.garbage, 1)
\* The union of a string or a list holds the pointer to its allocation, and
\* int_val reads the address.  The two operands of a binary operation are
\* alive together, each the result of an evaluation of its own (value_string
\* and value_copy allocate), so the left one (side 1) lies at another
\* address than the right one (side 2).
address(side) == 4096 * side
operand_double(I, v, side) ==
  IF v.type \in {"string", "list"} THEN fraction(address(side), 1) ELSE as_double(I, v)
\* (int64_t)d
to_int64(d) == quotient(d.num, d.den)

\* b == 0 of OP_INT_DIV only
is_zero_divisor_of_int_div_only(op, b) == op = "INT_DIV" /\ b.num = 0

\* the test b == 0 of OP_DIV and OP_INT_DIV
is_zero_divisor(op, b) == op \in {"DIV", "INT_DIV"} /\ b.num = 0

\* the switch of eval_binary on the doubles a and b
numeric_binary(op, use_float, a, b) ==
  LET arith(d) == IF use_float THEN value_float(d) ELSE value_int(to_int64(d))
  IN CASE op = "ADD" -> arith(fraction(a.num * b.den + b.num * a.den, a.den * b.den))
       [] op = "SUB" -> arith(fraction(a.num * b.den - b.num * a.den, a.den * b.den))
       [] op = "MUL" -> arith(fraction(a.num * b.num, a.den * b.den))
       [] op = "DIV" -> value_float(fraction(a.num * b.den, a.den * b.num))
       [] op = "INT_DIV" -> value_int(to_int64(fraction(a.num * b.den, a.den * b.num)))
       [] op = "MOD" -> value_int(c_remainder(to_int64(a), to_int64(b)))
       [] op = "EQ" -> value_bool(a.num * b.den = b.num * a.den)
       [] op = "NE" -> value_bool(a.num * b.den # b.num * a.den)
       [] op = "LT" -> value_bool(a.num * b.den < b.num * a.den)
       [] op = "LE" -> value_bool(a.num * b.den <= b.num * a.den)
       [] op = "GT" -> value_bool(a.num * b.den > b.num * a.den)
       [] op = "GE" -> value_bool(a.num * b.den >= b.num * a.den)

\* an and / or whose left operand never decides the result
left_never_decides(op, left) == FALSE

\* the tests of the short circuit: !value_is_truthy(&left) for OP_AND,
\* value_is_truthy(&left) for OP_OR
left_decides(op, left) ==
  IF op = "AND" THEN ~value_is_truthy(left) ELSE value_is_truthy(left)

\* eval_binary: the short circuit of and / or, + with a string operand, and
\* the numeric operators.
\* OP_MOD computes (int64_t)a % (int64_t)b without a test of the divisor:
\* the remainder by 0 is undefined, the build either ends the process with
\* SIGFPE (I.sigfpe) or goes on with some integer (I.garbage)
eval_binary(I, node) ==
  LET l == do_eval_expr(I, node.left)
  IN IF node.op = "AND"
     THEN IF left_decides("AND", l.val) THEN [I |-> l.I, val |-> value_bool(FALSE)]
          ELSE LET r == do_eval_expr(l.I, node.right)
               IN [I |-> r.I, val |-> value_bool(value_is_truthy(r.val))]
     ELSE IF node.op = "OR"
     THEN IF left_decides("OR", l.val) THEN [I |-> l.I, val |-> value_bool(TRUE)]
          ELSE LET r == do_eval_expr(l.I, node.right)
               IN [I |-> r.I, val |-> value_bool(value_is_truthy(r.val))]
     ELSE LET r == do_eval_expr(l.I, node.right)
              use_float == l.val.type = "float" \/ r.val.type = "float"
              a == operand_double(r.I, l.val, 1)
              b == operand_double(r.I, r.val, 2)
          IN IF node.op = "ADD" /\ (l.val.type = "string" \/ r.val.type = "string")
             THEN [I |-> r.I,
                   val |-> value_string(concat_operand(l.val) \o concat_operand(r.val))]
             ELSE IF is_zero_divisor(node.op, b)
             THEN [I |-> runtime_error(r.I, "Division by zero. Even infinity has its limits."),
                   val |-> value_null]
             ELSE IF node.op = "MOD" /\ to_int64(b) = 0
             THEN IF r.I.sigfpe THEN [I |-> [r.I EXCEPT !.fault = TRUE], val |-> value_null]
                  ELSE [I |-> r.I, val |-> value_int(r.I.garbage)]
             ELSE [I |-> r.I, val |-> numeric_binary(node.op, use_float, a, b)]

\* the argument / element loop: evaluates nodes[i..] left to right
eval_list(I, nodes, i, acc) ==
  IF i > Len(nodes) THEN [I |-> I, vals |-> acc]
  ELSE LET r == do_eval_expr(I, nodes[i])
       IN eval_list(r.I, nodes, i + 1, Append(acc, r.val))

eval_call(I, node) ==
  LET func == env_get(I.current_env, node.name)
  IN IF ~func.found
     THEN [I |-> runtime_error(I, "is unknown. Perhaps you intended to define it first."),
           val |-> value_null]
     ELSE LET args == eval_list(I, node.args, 1, <<>>)
          IN CASE func.value.type = "builtin" ->
                    call_builtin(env_deref_in(I.current_env, node.name, args.I),
                                 func.value.name, args.vals)
               [] func.value.type = "protocol" ->
                    do_interpreter_call(env_deref_in(I.current_env, node.name, args.I),
                                        func.value, value_null, args.vals)
               [] OTHER -> [I |-> runtime_error(args.I, "is not callable."),
                            val |-> value_null]

\* AST_UNARY_OP for OP_NEG
eval_unary(I, node) ==
  LET operand == do_eval_expr(I, node.operand)
  IN IF node.op = "NEG" /\ operand.val.type = "int"
     THEN [I |-> operand.I, val |-> value_int(0 - operand.val.n)]
     ELSE IF node.op = "NEG" /\ operand.val.type = "float"
     THEN [I |-> operand.I,
           val |-> value_float(fraction(0 - operand.val.num, operand.val.den))]
     ELSE [I |-> operand.I, val |-> value_null]

\* value_list_get: a copy of the item, void outside the list
value_list_get(list, index) ==
  IF index < 0 \/ index >= Len(list.items) THEN value_null
  ELSE value_copy(list.items[index + 1])

eval_index(I, node) ==
  LET obj == do_eval_expr(I, node.object)
      idx == do_eval_expr(obj.I, node.index)
  IN IF obj.val.type = "list" /\ idx.val.type = "int"
     THEN [I |-> idx.I, val |-> value_list_get(obj.val, idx.val.n)]
     ELSE [I |-> idx.I, val |-> value_null]

\* AST_SLICE, the bounds: a bound is taken only from an int value; negative
\* start and end count from the end; then the three clamps
slice_bound(bound, default) ==
  IF bound # <<>> /\ bound[1].type = "int" THEN bound[1].n ELSE default

slice_start(len, start) ==
  LET s == IF start < 0 THEN len + start ELSE start
      t == IF s < 0 THEN 0 ELSE s
  IN IF t > len THEN len ELSE t

slice_end(len, end) ==
  LET n == IF end < 0 THEN len + end ELSE end
  IN IF n > len THEN len ELSE n

\* for (i = start; i < end; i += step) push(copy(items[i]))
RECURSIVE slice_list_up(_, _, _, _)
slice_list_up(items, i, end, step) ==
  IF i < end THEN <<value_copy(items[i + 1])>> \o slice_list_up(items, i + step, end, step)
  ELSE <<>>

\* for (i = ...; i > end; i += step) if (i >= 0 && i < len) push(copy(items[i]))
RECURSIVE slice_list_down(_, _, _, _)
slice_list_down(items, i, end, step) ==
  IF i > end
  THEN (IF i >= 0 /\ i < Len(items) THEN <<value_copy(items[i + 1])>> ELSE <<>>)
         \o slice_list_down(items, i + step, end, step)
  ELSE <<>>

\* the string loop for (i = start; i < end && i < len; i += step) with a
\* step that moves i forward
RECURSIVE slice_string_up(_, _, _, _)
slice_string_up(chars, i, end, step) ==
  IF i < end /\ i < Len(chars)
  THEN <<chars[i + 1]>> \o slice_string_up(chars, i + step, end, step)
  ELSE <<>>

\* the same loop with a step below 0 is entered exactly when its condition
\* holds for i = start, and then the condition holds for every smaller i
slice_string_runs_away(len, start, end, step) ==
  step < 0 /\ start < end /\ start < len

eval_slice(I, node) ==
  LET obj == do_eval_expr(I, node.object)
      len == IF obj.val.type = "list" THEN Len(obj.val.items)
             ELSE Len(string_chars(obj.val.s))
      vs == IF node.start = <<>> THEN [I |-> obj.I, val |-> <<>>]
            ELSE LET r == do_eval_expr(obj.I, node.start[1])
                 IN [I |-> r.I, val |-> <<r.val>>]
      ve == IF node.end = <<>> THEN [I |-> vs.I, val |-> <<>>]
            ELSE LET r == do_eval_expr(vs.I, node.end[1])
                 IN [I |-> r.I, val |-> <<r.val>>]
      vp == IF node.step = <<>> THEN [I |-> ve.I, val |-> <<>>]
            ELSE LET r == do_eval_expr(ve.I, node.step[1])
                 IN [I |-> r.I, val |-> <<r.val>>]
      start == slice_start(len, slice_bound(vs.val, 0))
      end == slice_end(len, slice_bound(ve.val, len))
      step == slice_bound(vp.val, 1)
  IN IF obj.val.type \notin {"list", "string"}
     THEN [I |-> runtime_error(obj.I, "Slice requires list or string"),
           val |-> value_null]
     ELSE IF step = 0
     THEN [I |-> runtime_error(vp.I, "Slice step cannot be zero"), val |-> value_null]
     ELSE IF obj.val.type = "list"
     THEN [I |-> vp.I,
           val |-> value_list(
             IF step > 0 THEN slice_list_up(obj.val.items, start, end, step)
             ELSE slice_list_down(obj.val.items,
                                  IF end < start THEN start - 1 ELSE start,
                                  end, step))]
     ELSE IF slice_string_runs_away(len, start, end, step)
     THEN [I |-> [vp.I EXCEPT !.hang = TRUE], val |-> value_null]
     ELSE [I |-> vp.I,
           val |-> value_string(string_of(
             slice_string_up(string_chars(obj.val.s), start, end, step)))]

\* the chain of scopes from cls->methods up to, not including, the global
\* scope: a class without parent has cls->methods = env_create(current_env),
\* which is the global scope for an entity statement at top level; a class
\* with a parent has cls->methods = env_create(cls->parent->methods)
class_chain(cls) ==
  <<cls.methods>> \o (IF cls.parent = <<>> THEN <<>> ELSE class_chain(cls.parent[1]))

\* env_get(cls->methods, name, &found).  A method found in a class scope has
\* that scope as its closure (method->closure = cls->methods).
methods_get(I, cls, name) ==
  the({the({the({IF d > 0 /\ d < Len(chain) /\ r.value.type = "protocol"
                 THEN [found |-> TRUE,
                       value |-> [r.value EXCEPT
                                    !.closure = SubSeq(chain, d, Len(chain) - 1)]]
                 ELSE r :
                 d \in {IF at = {} THEN 0 ELSE CHOOSE i \in at : \A j \in at : i <= j},
                 r \in {env_get(chain, name)}}) :
            at \in {{i \in 1..Len(chain) : env_find(chain[i], name, 1) > 0}}}) :
       chain \in {class_chain(cls) \o <<global_env(I)>>}})

eval_member(I, node) ==
  the({IF obj.val.type # "instance"
       THEN [I |-> runtime_error(obj.I, "Only instances have members."),
             val |-> value_null]
       ELSE IF private_inhibited(obj.I, node.member, obj.val)
       THEN [I |-> runtime_error(obj.I, "Access to private member inhibited."),
             val |-> value_null]
       ELSE the({the({IF val.found THEN [I |-> obj.I, val |-> value_copy(val.value)]
                      ELSE IF method.found
                      THEN [I |-> obj.I, val |-> value_copy(method.value)]
                      ELSE [I |-> runtime_error(obj.I, "Member '" \o node.member \o "' not found on instance of '" \o inst.class_def.name \o "'."),
                            val |-> value_null] :
                      val \in {env_get(fields_env(inst), node.member)},
                      method \in {methods_get(obj.I, inst.class_def, node.member)}}) :
                 inst \in {obj.I.heap[obj.val.ref]}}) :
       obj \in {do_eval_expr(I, node.object)}})

eval_method_call(I, node) ==
  the({IF obj.val.type # "instance"
       THEN [I |-> runtime_error(obj.I, "Method calls only supported on class instances."),
             val |-> value_null]
       ELSE the({IF ~method.found \/ method.value.type # "protocol"
                 THEN [I |-> runtime_error(obj.I, "Method '" \o node.method_name \o "' not found."), val |-> value_null]
                 ELSE the({do_interpreter_call(args.I, method.value, obj.val, args.vals) :
                           args \in {eval_list(obj.I, node.args, 1, <<>>)}}) :
                 method \in {methods_get(obj.I, obj.I.heap[obj.val.ref].class_def,
                                         node.method_name)}}) :
       obj \in {do_eval_expr(I, node.object)}})

\* interp.ascents holds the calls of step 5 that have not returned, each with
\* the heap and the global scope it started from.  A call that is about to
\* start again from the configuration of one that waits for it repeats
\* itself without end: the recursion never returns (hang).
ascent(I, method, self, args) ==
  <<method.value.node.id, self.value, args.vals, I.heap, global_env(I)>>

eval_ascend(I, node) ==
  the({IF ~self.found \/ self.value.type # "instance"
       THEN [I |-> runtime_error(I, "'ascend' can only be used inside an instance protocol."),
             val |-> value_null]
       ELSE LET cls == I.heap[self.value.ref].class_def
            IN IF cls.parent = <<>>
               THEN [I |-> runtime_error(I, "This entity does not ascend to any parent."),
                     val |-> value_null]
               ELSE the({IF ~method.found \/ method.value.type # "protocol"
                         THEN [I |-> runtime_error(I, "Parent protocol '" \o node.name \o "' not found."),
                               val |-> value_null]
                         ELSE the({IF ascent(args.I, method, self, args) \in I.ascents
                                   THEN [I |-> [args.I EXCEPT !.hang = TRUE],
                                         val |-> value_null]
                                   ELSE the({[I |-> [r.I EXCEPT !.ascents = I.ascents],
                                              val |-> r.val] :
                                             r \in {do_interpreter_call(
                                                      [args.I EXCEPT !.ascents =
                                                         @ \cup {ascent(args.I, method,
                                                                        self, args)}],
                                                      method.value, self.value,
                                                      args.vals)}}) :
                                   args \in {eval_list(I, node.args, 1, <<>>)}}) :
                         method \in {methods_get(I, cls.parent[1], node.name)}}) :
       self \in {env_get(I.current_env, "self")}})

\* instance->fields = env_create(parent) with the scope of the manifest
\* expression as parent
fields_parent_is_current_env(I) == I.current_env

\* instance->fields = env_create(NULL): no parent
manifest_fields_parent(I) == <<>>

eval_manifest(I, node) ==
  the({IF ~class_val.found \/ class_val.value.type # "class"
       THEN [I |-> runtime_error(I, "Entity is not defined"), val |-> value_null]
       ELSE the({the({IF construct.found /\ construct.value.type = "protocol"
                      THEN the({[I |-> do_interpreter_call(args.I, construct.value,
                                                           instance, args.vals).I,
                                 val |-> instance] :
                                args \in {eval_list(I1, node.args, 1, <<>>)}})
                      ELSE [I |-> I1, val |-> instance] :
                      instance \in {value_instance(Len(I1.heap))},
                      construct \in {methods_get(I1, class_val.value, "construct")}}) :
                 I1 \in {[I EXCEPT !.heap =
                            Append(@, [class_def |-> class_val.value,
                                       fields |-> env_create,
                                       fields_parent |-> manifest_fields_parent(I)])]}}) :
       class_val \in {env_get(<<global_env(I)>>, node.class_name)}})

eval_self(I, node) ==
  LET self == env_get(I.current_env, "self")
  IN IF ~self.found
     THEN [I |-> runtime_error(I, "'self' can only be used inside a method"),
           val |-> value_null]
     ELSE [I |-> I, val |-> value_copy(self.value)]

eval_expr(I, node) ==
  CASE node.k = "INTEGER" -> [I |-> I, val |-> value_int(node.v)]
    [] node.k = "FLOAT" -> [I |-> I, val |-> value_float(fraction(node.num, node.den))]
    [] node.k = "STRING" -> [I |-> I, val |-> value_string(node.v)]
    [] node.k = "BOOL" -> [I |-> I, val |-> value_bool(node.v)]
    [] node.k = "IDENTIFIER" ->
         LET val == env_get(I.current_env, node.name)
         IN IF ~val.found
            THEN [I |-> runtime_error(env_deref(I, node.name),
                                      "is unknown. Perhaps you intended to designate it first."),
                  val |-> value_null]
            ELSE [I |-> env_deref(I, node.name), val |-> val.value]
    [] node.k = "LAMBDA" ->
         [I |-> I,
          val |-> [type |-> "protocol", name |-> "", node |-> node,
                   is_sequence |-> FALSE, closure |-> locals(I.current_env)]]
    [] node.k = "BINARY_OP" -> eval_binary(I, node)
    [] node.k = "CALL" -> eval_call(I, node)
    [] node.k = "LIST" ->
         LET r == eval_list(I, node.elements, 1, <<>>)
         IN [I |-> r.I, val |-> value_list(r.vals)]
    [] node.k = "UNARY_OP" -> eval_unary(I, node)
    [] node.k = "INDEX" -> eval_index(I, node)
    [] node.k = "SLICE" -> eval_slice(I, node)
    [] node.k = "MEMBER" -> eval_member(I, node)
    [] node.k = "METHOD_CALL" -> eval_method_call(I, node)
    [] node.k = "ASCEND" -> eval_ascend(I, node)
    [] node.k = "MANIFEST" -> eval_manifest(I, node)
    [] node.k = "SELF" -> eval_self(I, node)


(***************************************************************************)
(* Statements (interpreter.c:2401-3067).                                   *)
(***************************************************************************)
exec_block(I, stmts) ==
  IF resuming_at(I, "BLOCK", stmts.bid)
  THEN exec_block_from(resume_pop(I), stmts, resume_top(I).index)
  ELSE exec_block_from(I, stmts, 0)

\* the for loop of exec_block, at 0-based index i
exec_block_from(I, stmts, i) ==
  IF i >= Len(stmts.nodes) THEN I
  ELSE LET old_stack_count ==
             IF I.current_gen # <<>> THEN Len(I.current_gen[1].stack) ELSE 0
           I1 == do_eval_stmt(I, stmts.nodes[i + 1])
       IN IF I1.has_return \/ I1.has_error \/ I1.has_break \/ I1.has_continue
          THEN IF suspending(I1)
               THEN LET child_suspended ==
                          Len(I1.current_gen[1].stack) > old_stack_count
                    IN gen_push_frame(I1,
                         [ZeroFrame EXCEPT !.type = "BLOCK",
                                           !.index = IF child_suspended THEN i ELSE i + 1,
                                           !.node = stmts.bid])
               ELSE I1
          ELSE exec_block_from(I1, stmts, i + 1)

\* AST_FORESEE, the loop over the alternates from index i (1-based)
foresee_alternates(I, node, i) ==
  IF i > Len(node.alternates)
  THEN IF Len(node.otherwise.nodes) > 0 THEN do_exec_block(I, node.otherwise) ELSE I
  ELSE LET alt_cond == do_eval_expr(I, node.alternates[i].condition)
       IN IF value_is_truthy(alt_cond.val)
          THEN do_exec_block(alt_cond.I, node.alternates[i].body)
          ELSE foresee_alternates(alt_cond.I, node, i + 1)

\* AST_CYCLE_WHILE, one pass of while (true) from its top
cycle_while(I, node) ==
  LET resuming_this_iteration == resuming_at(I, "CYCLE_WHILE", NodeOf(node))
  IN the({IF ~value_is_truthy(cond.val) THEN cond.I
          ELSE the({IF I1.has_continue
                    THEN cycle_while([I1 EXCEPT !.has_continue = FALSE], node)
                    ELSE IF I1.has_break THEN [I1 EXCEPT !.has_break = FALSE]
                    ELSE IF I1.has_return \/ I1.has_error
                    THEN IF suspending(I1)
                         THEN gen_push_frame(I1, [ZeroFrame EXCEPT
                                                    !.type = "CYCLE_WHILE",
                                                    !.node = NodeOf(node)])
                         ELSE I1
                    ELSE cycle_while(I1, node) :
                    I1 \in {do_exec_block(cond.I, node.body)}}) :
          cond \in {IF resuming_this_iteration
                    THEN [I |-> resume_pop(I), val |-> value_bool(TRUE)]
                    ELSE do_eval_expr(I, node.condition)}})

\* AST_CYCLE_THROUGH, list branch: the for loop at 0-based index i
cycle_through_list(I, node, iterable, i) ==
  IF i >= Len(iterable.items) THEN I
  ELSE the({IF I2.has_return \/ I2.has_error
            THEN IF suspending(I2)
                 THEN gen_push_frame(I2, [ZeroFrame EXCEPT
                                            !.type = "CYCLE_THROUGH",
                                            !.index = i,
                                            !.iterable = value_copy(iterable),
                                            !.node = NodeOf(node)])
                 ELSE I2
            ELSE cycle_through_list(I2, node, iterable, i + 1) :
            I2 \in {do_exec_block(assign_to_target(I, node.var_pattern,
                                                   iterable.items[i + 1], TRUE),
                                  node.body)}})

\* AST_CYCLE_THROUGH, generator branch: one pass of while (true); gen is the
\* Generator the local iterable points at
cycle_through_gen(I, node, gen, resuming_into_body) ==
  the({IF ~resuming_into_body /\ next.val.type = "void" /\ next.gen.status = "done"
       THEN [next.I EXCEPT !.iter_status = Append(@, next.gen.status)]
       ELSE the({IF I2.has_continue
                 THEN cycle_through_gen([I2 EXCEPT !.has_continue = FALSE], node,
                                        next.gen, FALSE)
                 ELSE IF I2.has_break THEN [I2 EXCEPT !.has_break = FALSE]
                 ELSE IF I2.has_return \/ I2.has_error
                 THEN IF suspending(I2)
                      THEN gen_push_frame(I2, [ZeroFrame EXCEPT
                                                 !.type = "CYCLE_THROUGH",
                                                 !.iterable =
                                                   value_copy(value_generator(next.gen)),
                                                 !.node = NodeOf(node)])
                      ELSE I2
                 ELSE cycle_through_gen(I2, node, next.gen, FALSE) :
                 I2 \in {do_exec_block(IF resuming_into_body THEN next.I
                                       ELSE assign_to_target(next.I, node.var_pattern,
                                                             next.val, TRUE),
                                       node.body)}}) :
       next \in {IF resuming_into_body THEN [I |-> I, gen |-> gen, val |-> value_null]
                 ELSE do_interpreter_gen_next(I, gen)}})

eval_cycle_through(I, node) ==
  LET resumed == resuming_at(I, "CYCLE_THROUGH", NodeOf(node))
      frame == resume_top(I)
      start_idx == IF resumed THEN frame.index ELSE 0
  IN the({CASE it.val.type = "list" -> cycle_through_list(it.I, node, it.val, start_idx)
            [] it.val.type = "sequence" ->
                 cycle_through_gen(it.I, node, it.val.gen,
                                   resumed /\ frame.iterable.type = "sequence"
                                     /\ it.I.resume_count > 0)
            [] OTHER -> runtime_error(it.I, "Can only cycle through a list or sequence.") :
          it \in {IF resumed
                  THEN [I |-> resume_pop(I), val |-> value_copy(frame.iterable)]
                  ELSE do_eval_expr(I, node.iterable)}})

\* the for loop of AST_CYCLE_FROM_TO with f.current = i + 1 in the saved frame
cycle_from_to_saves_next(I, node, i, end_val) ==
  IF i >= end_val THEN I
  ELSE the({IF I2.has_continue
            THEN cycle_from_to([I2 EXCEPT !.has_continue = FALSE], node, i + 1, end_val)
            ELSE IF I2.has_break THEN [I2 EXCEPT !.has_break = FALSE]
            ELSE IF I2.has_return \/ I2.has_error
            THEN IF suspending(I2)
                 THEN gen_push_frame(I2, [ZeroFrame EXCEPT !.type = "CYCLE_FROM_TO",
                                                           !.current = i + 1,
                                                           !.end = end_val,
                                                           !.node = NodeOf(node)])
                 ELSE I2
            ELSE cycle_from_to(I2, node, i + 1, end_val) :
            I2 \in {do_exec_block(assign_to_target(I, node.var_pattern, value_int(i),
                                                   TRUE),
                                  node.body)}})

\* AST_CYCLE_FROM_TO, the for loop at counter i
cycle_from_to(I, node, i, end_val) ==
  IF i >= end_val THEN I
  ELSE the({IF I2.has_continue
            THEN cycle_from_to([I2 EXCEPT !.has_continue = FALSE], node, i + 1, end_val)
            ELSE IF I2.has_break THEN [I2 EXCEPT !.has_break = FALSE]
            ELSE IF I2.has_return \/ I2.has_error
            THEN IF suspending(I2)
                 THEN gen_push_frame(I2, [ZeroFrame EXCEPT !.type = "CYCLE_FROM_TO",
                                                           !.current = i,
                                                           !.end = end_val,
                                                           !.node = NodeOf(node)])
                 ELSE I2
            ELSE cycle_from_to(I2, node, i + 1, end_val) :
            I2 \in {do_exec_block(assign_to_target(I, node.var_pattern, value_int(i),
                                                   TRUE),
                                  node.body)}})

eval_cycle_from_to(I, node) ==
  IF resuming_at(I, "CYCLE_FROM_TO", NodeOf(node))
  THEN cycle_from_to(resume_pop(I), node, resume_top(I).current, resume_top(I).end)
  ELSE the({the({cycle_from_to(end.I, node,
                               IF start.val.type = "int" THEN start.val.n ELSE 0,
                               IF end.val.type = "int" THEN end.val.n ELSE 0) :
                 end \in {do_eval_expr(start.I, node.end)}}) :
            start \in {do_eval_expr(I, node.start)}})

eval_yield(I, node) ==
  LET r == do_eval_expr(I, node.value)
  IN [r.I EXCEPT !.return_value = r.val, !.has_return = TRUE]

\* AST_DELEGATE with f.index = i + 2, not i + 1, in the frame of the list branch
eval_delegate_skips(I, node) ==
  LET resumed == resuming_at(I, "DELEGATE", NodeOf(node))
      frame == resume_top(I)
      start_idx == IF resumed THEN frame.index ELSE 0
      push(J, index, iterable) ==
        IF J.current_gen # <<>>
        THEN gen_push_frame(J, [ZeroFrame EXCEPT !.type = "DELEGATE",
                                                 !.index = index,
                                                 !.iterable = value_copy(iterable),
                                                 !.node = NodeOf(node)])
        ELSE J
  IN the({CASE it.val.type = "list" ->
                 IF start_idx < Len(it.val.items)
                 THEN push([it.I EXCEPT
                              !.return_value = value_copy(it.val.items[start_idx + 1]),
                              !.has_return = TRUE],
                           start_idx + 2, it.val)
                 ELSE it.I
            [] it.val.type = "sequence" ->
                 the({IF next.val.type = "void" /\ next.gen.status = "done" THEN next.I
                      ELSE push([next.I EXCEPT !.return_value = next.val,
                                               !.has_return = TRUE],
                                0, value_generator(next.gen)) :
                      next \in {do_interpreter_gen_next(it.I, it.val.gen)}})
            [] OTHER -> runtime_error(it.I, "Can only delegate to a list or sequence.") :
          it \in {IF resumed
                  THEN [I |-> resume_pop(I), val |-> value_copy(frame.iterable)]
                  ELSE do_eval_expr(I, node.iterable)}})

eval_delegate(I, node) ==
  LET resumed == resuming_at(I, "DELEGATE", NodeOf(node))
      frame == resume_top(I)
      start_idx == IF resumed THEN frame.index ELSE 0
      push(J, index, iterable) ==
        IF J.current_gen # <<>>
        THEN gen_push_frame(J, [ZeroFrame EXCEPT !.type = "DELEGATE",
                                                 !.index = index,
                                                 !.iterable = value_copy(iterable),
                                                 !.node = NodeOf(node)])
        ELSE J
  IN the({CASE it.val.type = "list" ->
                 IF start_idx < Len(it.val.items)
                 THEN push([it.I EXCEPT
                              !.return_value = value_copy(it.val.items[start_idx + 1]),
                              !.has_return = TRUE],
                           start_idx + 1, it.val)
                 ELSE it.I
            [] it.val.type = "sequence" ->
                 the({IF next.val.type = "void" /\ next.gen.status = "done" THEN next.I
                      ELSE push([next.I EXCEPT !.return_value = next.val,
                                               !.has_return = TRUE],
                                0, value_generator(next.gen)) :
                      next \in {do_interpreter_gen_next(it.I, it.val.gen)}})
            [] OTHER -> runtime_error(it.I, "Can only delegate to a list or sequence.") :
          it \in {IF resumed
                  THEN [I |-> resume_pop(I), val |-> value_copy(frame.iterable)]
                  ELSE do_eval_expr(I, node.iterable)}})

\* the statement loops of AST_ATTEMPT: eval_stmt on nodes[i..] (1-based) until
\* has_return, or has_error when stop_on_error
eval_stmts(I, nodes, i, stop_on_error) ==
  IF i > Len(nodes) THEN I
  ELSE the({IF I1.has_return \/ (stop_on_error /\ I1.has_error) THEN I1
            ELSE eval_stmts(I1, nodes, i + 1, stop_on_error) :
            I1 \in {do_eval_stmt(I, nodes[i])}})

\* AST_ATTEMPT entering the recover body with the error still set
eval_attempt_keeps_error(I, node) ==
  LET I1 == eval_stmts([I EXCEPT !.has_error = FALSE], node.try_body, 1, TRUE)
  IN IF I1.has_error /\ Len(node.recover_body) > 0
     THEN eval_stmts(I1, node.recover_body, 1, FALSE)
     ELSE I1

eval_attempt(I, node) ==
  LET old_error == I.has_error
      old_error_buf == I.error_buffer
      I1 == eval_stmts([I EXCEPT !.has_error = FALSE], node.try_body, 1, TRUE)
  IN IF I1.has_error /\ Len(node.recover_body) > 0
     THEN LET error_msg == I1.error_buffer
              I2 == [I1 EXCEPT !.has_error = FALSE, !.error_buffer = ""]
              I3 == IF node.error_var # ""
                    THEN [I2 EXCEPT !.current_env =
                            env_define(@, node.error_var, value_string(error_msg))]
                    ELSE I2
          IN eval_stmts(I3, node.recover_body, 1, FALSE)
     ELSE IF ~I1.has_error
     THEN [I1 EXCEPT !.has_error = old_error, !.error_buffer = old_error_buf]
     ELSE I1

\* value_equals on the value kinds of the modelled programs; two VAL_FUNCTION
\* values are equal when they point at the same Function, and every
\* evaluation yields a Function of its own
value_equals(a, b) ==
  IF a.type # b.type THEN FALSE
  ELSE CASE a.type = "void" -> TRUE
         [] a.type = "bool" -> a.b = b.b
         [] a.type = "int" -> a.n = b.n
         [] a.type = "string" -> a.s = b.s
         [] a.type = "list" ->
              /\ Len(a.items) = Len(b.items)
              /\ \A i \in 1..Len(a.items) : value_equals(a.items[i], b.items[i])
         [] a.type = "instance" -> a.ref = b.ref
         [] OTHER -> FALSE

\* the alignment loops of AST_SITUATION from alignment i, value j on
situation_match(I, node, val, i, j) ==
  IF i > Len(node.alignments) THEN [I |-> I, matched |-> FALSE]
  ELSE LET alignment == node.alignments[i]
       IN IF alignment.is_otherwise \/ j > Len(alignment.values)
          THEN situation_match(I, node, val, i + 1, 1)
          ELSE LET case_val == do_eval_expr(I, alignment.values[j])
               IN IF value_equals(val, case_val.val)
                  THEN [I |-> do_exec_block(case_val.I, alignment.body),
                        matched |-> TRUE]
                  ELSE situation_match(case_val.I, node, val, i, j + 1)

\* AST_SITUATION running the otherwise body whether or not a value matched
eval_situation_always_otherwise(I, node) ==
  LET val == do_eval_expr(I, node.value)
      m == situation_match(val.I, node, val.val, 1, 1)
      others == {i \in 1..Len(node.alignments) : node.alignments[i].is_otherwise}
  IN IF others # {}
     THEN do_exec_block(m.I, node.alignments[CHOOSE i \in others :
                                              \A j \in others : i <= j].body)
     ELSE m.I

eval_situation(I, node) ==
  LET val == do_eval_expr(I, node.value)
      m == situation_match(val.I, node, val.val, 1, 1)
      others == {i \in 1..Len(node.alignments) : node.alignments[i].is_otherwise}
  IN IF ~m.matched /\ others # {}
     THEN do_exec_block(m.I, node.alignments[CHOOSE i \in others :
                                              \A j \in others : i <= j].body)
     ELSE m.I

\* the member loop of AST_ENTITY: the Function of a method is malloc'ed and
\* its is_sequence is never written
entity_methods(I, members, i, methods) ==
  IF i > Len(members) THEN methods
  ELSE entity_methods(I, members, i + 1,
         env_define(methods, members[i].name,
                    [value_function(members[i]) EXCEPT !.is_sequence = I.uninit]))

\* a parent lookup that also finds the class that is being defined
entity_parent_finds_itself(I, node) ==
  IF node.parent = node.name
  THEN <<[value_class(node.name, <<>>, <<>>) EXCEPT !.cls = Len(I.classes) + 1]>>
  ELSE <<>>

\* the parent lookup of AST_ENTITY: <<>> for a cls->parent left NULL
entity_parent(I, node) ==
  the({IF node.parent # "" /\ parent_val.found /\ parent_val.value.type = "class"
       THEN <<parent_val.value>> ELSE <<>> :
       parent_val \in {env_get(<<global_env(I)>>, node.parent)}})

\* the new KeikakuClass is the next entry of classes; its methods
\* environment has the parent's methods as parent, or interp->current_env
\* (0) without a parent
eval_entity(I, node) ==
  LET methods == entity_methods(I, node.members, 1, <<env_create>>)[1]
      g == Len(I.current_env)
      cls == Len(I.classes) + 1
  IN the({the({[I EXCEPT !.classes = Append(@, [name |-> node.name, parent |-> up,
                                                methods_parent |-> up]),
                         !.current_env[g] =
                           env_define(<<@>>, node.name,
                                      [value_class(node.name, parent, methods) EXCEPT
                                         !.cls = cls])[1]] :
               up \in {IF parent = <<>> THEN 0 ELSE parent[1].cls}}) :
          parent \in {entity_parent(I, node)}})

eval_override(I, node) ==
  LET val == do_eval_expr(I, node.value)
  IN [val.I EXCEPT !.current_env = env_force_set(@, node.name, val.val)]

eval_stmt(I, node) ==
  IF I.has_return THEN I
  ELSE LET J == [I EXCEPT !.steps = @ + 1]
       IN CASE node.k \in {"DESIGNATE", "ASSIGN"} ->
                 LET val == do_eval_expr(J, node.value)
                 IN assign_to_target(val.I, node.target, val.val, node.k = "DESIGNATE")
            [] node.k = "EXPR_STMT" -> do_eval_expr(J, node.expr).I
            [] node.k = "FORESEE" ->
                 LET cond == do_eval_expr(J, node.condition)
                 IN IF value_is_truthy(cond.val) THEN do_exec_block(cond.I, node.body)
                    ELSE foresee_alternates(cond.I, node, 1)
            [] node.k = "CYCLE_WHILE" -> cycle_while(J, node)
            [] node.k = "CYCLE_THROUGH" -> eval_cycle_through(J, node)
            [] node.k = "CYCLE_FROM_TO" -> eval_cycle_from_to(J, node)
            [] node.k = "PROTOCOL" ->
                 [J EXCEPT !.current_env =
                    env_define(@, node.name,
                               [value_function(node) EXCEPT !.closure = locals(J.current_env)])]
            [] node.k = "YIELD" -> eval_yield(J, node)
            [] node.k = "BREAK" -> [J EXCEPT !.has_break = TRUE]
            [] node.k = "CONTINUE" -> [J EXCEPT !.has_continue = TRUE]
            [] node.k = "DELEGATE" -> eval_delegate(J, node)
            [] node.k = "ATTEMPT" -> eval_attempt(J, node)
            [] node.k = "ASSIGN_TO" ->
                 LET val == do_eval_expr(J, node.value)
                 IN IF node.target.k = "MEMBER"
                    THEN assign_to_member(val.I, node.target, val.val)
                    ELSE assign_to_index(val.I, node.target, val.val)
            [] node.k = "OVERRIDE" -> eval_override(J, node)
            [] node.k = "SITUATION" -> eval_situation(J, node)
            [] node.k = "ENTITY" -> eval_entity(J, node)

(***************************************************************************)
(* Calls and generator advance (interpreter.c:3069-3229).                  *)
(***************************************************************************)
\* the parameter loop of interpreter_call for identifier parameters without
\* defaults: assign_to_target(param, argv[i] or void, designate)
bind_params(I, params, argv, i) ==
  IF i > Len(params) THEN I
  ELSE bind_params(assign_to_target(I, params[i],
                                    IF i <= Len(argv) THEN argv[i] ELSE value_null, TRUE),
                   params, argv, i + 1)

interpreter_call(I, func, self_val, argv) ==
  LET node == func.node
      old_env == I.current_env
      I0 == enter_env(I, env_create, func.closure)
      Is == IF self_val.type # "void"
            THEN [I0 EXCEPT !.current_env = env_define(@, "self", value_copy(self_val))]
            ELSE I0
  IN the({IF node.k = "LAMBDA"
          THEN the({[I |-> restore_env(result.I, old_env),
                     val |-> env_destroy(result.val, Len(func.closure) + 1)] :
                    result \in {do_eval_expr(I1, node.body)}})
          ELSE IF func.is_sequence
          THEN [I |-> restore_env(I1, old_env),
                val |-> value_generator_new(func, I1.current_env[1])]
          ELSE the({[I |-> restore_env(IF I2.has_return
                                       THEN [I2 EXCEPT !.return_value = value_null,
                                                       !.has_return = FALSE]
                                       ELSE I2,
                                       old_env),
                     val |-> IF I2.has_return
                             THEN env_destroy(I2.return_value, Len(func.closure) + 1)
                             ELSE value_null] :
                    I2 \in {do_exec_block(I1, node.body)}}) :
          I1 \in {bind_params(Is, node.params, argv, 1)}})

\* interpreter_gen_next without the early return for GEN_DONE
interpreter_gen_next_reruns_done(I, gen) ==
  LET I1 == [enter_env(I, gen.env, gen.func.closure) EXCEPT
               !.resume_stack = gen.stack,
               !.resume_count = Len(gen.stack),
               !.is_resuming = Len(gen.stack) > 0,
               !.current_gen = <<[gen EXCEPT !.stack = <<>>]>>]
      I2 == do_exec_block(I1, gen.func.node.body)
      gen2 == [I2.current_gen[1] EXCEPT
                 !.env = I2.current_env[1],
                 !.status = IF I2.has_return THEN "suspended" ELSE "done"]
      I3 == [restore_env(I2, I.current_env) EXCEPT
               !.return_value = IF I2.has_return THEN value_null ELSE @,
               !.has_return = FALSE,
               !.current_gen = I.current_gen,
               !.is_resuming = I.is_resuming,
               !.resume_stack = I.resume_stack,
               !.resume_count = I.resume_count]
  IN [I |-> [I3 EXCEPT !.adv_log = Append(@, [was_done |-> gen.status = "done",
                                              before |-> caller_view(I),
                                              after |-> caller_view(I3),
                                              has_return |-> I3.has_return,
                                              is_resuming |-> I2.is_resuming,
                                              resume_count |-> I2.resume_count])],
      gen |-> gen2,
      val |-> IF I2.has_return THEN I2.return_value ELSE value_null]

\* Advances the Generator gen in place; .gen is the Generator afterwards.
\* The entry of adv_log records is_resuming and resume_count as exec_block
\* leaves them, before the caller's are put back.
interpreter_gen_next(I, gen) ==
  IF gen.status = "done"
  THEN [I |-> [I EXCEPT !.adv_log = Append(@, [was_done |-> TRUE,
                                               before |-> caller_view(I),
                                               after |-> caller_view(I),
                                               has_return |-> I.has_return,
                                               is_resuming |-> FALSE,
                                               resume_count |-> 0])],
        gen |-> gen, val |-> value_null]
  ELSE LET I1 == [enter_env(I, gen.env, gen.func.closure) EXCEPT
                    !.resume_stack = gen.stack,
                    !.resume_count = Len(gen.stack),
                    !.is_resuming = Len(gen.stack) > 0,
                    !.current_gen = <<[gen EXCEPT !.stack = <<>>]>>]
           I2 == do_exec_block(I1, gen.func.node.body)
           gen2 == [I2.current_gen[1] EXCEPT
                      !.env = I2.current_env[1],
                      !.status = IF I2.has_return THEN "suspended" ELSE "done"]
           I3 == [restore_env(I2, I.current_env) EXCEPT
                    !.return_value = IF I2.has_return THEN value_null ELSE @,
                    !.has_return = FALSE,
                    !.current_gen = I.current_gen,
                    !.is_resuming = I.is_resuming,
                    !.resume_stack = I.resume_stack,
                    !.resume_count = I.resume_count]
       IN [I |-> [I3 EXCEPT !.adv_log = Append(@, [was_done |-> FALSE,
                                                   before |-> caller_view(I),
                                                   after |-> caller_view(I3),
                                                   has_return |-> I3.has_return,
                                                   is_resuming |-> I2.is_resuming,
                                                   resume_count |-> I2.resume_count])],
           gen |-> gen2,
           val |-> IF I2.has_return THEN I2.return_value ELSE value_null]

do(fn, I, a) ==
  CASE fn = "eval_expr" -> eval_expr(I, a[1])
    [] fn = "eval_stmt" -> eval_stmt(I, a[1])
    [] fn = "exec_block" -> exec_block(I, a[1])
    [] fn = "interpreter_call" -> interpreter_call(I, a[1], a[2], a[3])
    [] fn = "interpreter_gen_next" -> interpreter_gen_next(I, a[1])

(***************************************************************************)
(* The driver: run_file of main.c on a program file, or a host program     *)
(* that embeds the interpreter through interpreter.h.                      *)
(***************************************************************************)
\* interpreter_create: the global scope holds the builtins
interpreter_create ==
  [current_env |-> <<<<[name |-> "receive", value |-> value_builtin("receive"), is_override |-> FALSE],
                       [name |-> "transmit", value |-> value_builtin("transmit"), is_override |-> FALSE],
                       [name |-> "proceed", value |-> value_builtin("proceed"), is_override |-> FALSE],
                       [name |-> "declare", value |-> value_builtin("declare"), is_override |-> FALSE],
                       [name |-> "split", value |-> value_builtin("split"), is_override |-> FALSE],
                       [name |-> "join", value |-> value_builtin("join"), is_override |-> FALSE],
                       [name |-> "span", value |-> value_builtin("span"), is_override |-> FALSE]>>>>,
   return_value |-> value_null,
   has_return |-> FALSE, has_break |-> FALSE, has_continue |-> FALSE,
   has_error |-> FALSE, error_buffer |-> "",
   current_gen |-> <<>>, is_resuming |-> FALSE,
   resume_stack |-> <<>>, resume_count |-> 0,
   heap |-> <<>>, uninit |-> FALSE, garbage |-> 0, hang |-> FALSE, classes |-> <<>>,
   ascents |-> {},
   dangling |-> FALSE, fault |-> FALSE, fault_on_freed |-> FALSE, sigfpe |-> TRUE,
   out |-> <<>>, steps |-> 0, adv_log |-> <<>>, iter_status |-> <<>>]

\* the observations start afresh with every step of the driver
observe(I) == [I EXCEPT !.out = <<>>, !.steps = 0, !.adv_log = <<>>, !.iter_status = <<>>]

\* interpreter_execute up to the end of the definitions: the reset of
\* has_error and has_return, then AST_PROGRAM's loop over the protocols,
\* taken one group of definitions after the other
interpreter_execute(I) ==
  LET program(J, nodes) == IF J.has_return THEN J ELSE eval_stmts(J, nodes, 1, FALSE)
  IN program(program(program(program(program(program(program(program(
       [I EXCEPT !.has_error = FALSE, !.has_return = FALSE],
       Definitions), LoopDefinitions), ScopeDefinitions), PrivateDefinitions),
       SituationDefinitions), ClosureDefinitions), ParamDefinitions),
       ResumeDefinitions)

defined(I, name) == env_find(global_env(I), name, 1) # 0
count_defined(I, name) ==
  Cardinality({i \in 1..Len(global_env(I)) : global_env(I)[i].name = name})

(***************************************************************************)
(* The lexer (lexer.h:145-169, lexer.c:108-135, 285-308, 470-560).  The    *)
(* source is a sequence of characters, current a 0-based offset into it.   *)
(***************************************************************************)
MaxLines == 3  \* lines of one source text

\* leading whitespace of a line, and what follows it: a name, nothing, a
\* comment, or the carriage return of a line that ends in CR LF
Indents == {<<>>, <<" ">>, <<"\t">>}
Contents == {<<"x">>, <<>>, <<"#", "x">>, <<"\r">>}
SourceLines == {i \o c : i \in Indents, c \in Contents}

RECURSIVE join_lines(_, _)
\* the lines from index i on, with a newline between two lines
join_lines(lines, i) ==
  IF i > Len(lines) THEN <<>>
  ELSE lines[i] \o (IF i < Len(lines) THEN <<"\n">> ELSE <<>>) \o join_lines(lines, i + 1)

Sources == {join_lines(lines, 1) : lines \in UNION {[1..n -> SourceLines] : n \in 1..MaxLines}}

lexer_create(source) ==
  [source |-> source, current |-> 0, indent_stack |-> <<0>>, pending_dedents |-> 0,
   at_line_start |-> TRUE, tokens |-> <<>>]

at_end(L) == L.current >= Len(L.source)
\* peek returns '\0' at the end of the source
peek(L) == IF at_end(L) THEN "" ELSE L.source[L.current + 1]
current_indent(L) == L.indent_stack[Len(L.indent_stack)]
push_indent(L, indent) == [L EXCEPT !.indent_stack = Append(@, indent)]

\* the fields of a Token the layout is read from: its type and token.start as
\* an offset into the source
Token(type, start) == [type |-> type, start |-> start]

RECURSIVE skip_indent(_, _)
\* the while loop at lexer.c:489-495: .indent is the width measured
skip_indent(L, indent) ==
  IF peek(L) = " " THEN skip_indent([L EXCEPT !.current = @ + 1], indent + 1)
  ELSE IF peek(L) = "\t" THEN skip_indent([L EXCEPT !.current = @ + 1], indent + 4)
  ELSE [L |-> L, indent |-> indent]

RECURSIVE skip_comment(_)
skip_comment(L) ==
  IF ~at_end(L) /\ peek(L) # "\n" THEN skip_comment([L EXCEPT !.current = @ + 1]) ELSE L

RECURSIVE skip_whitespace_inline(_)
skip_whitespace_inline(L) ==
  IF ~at_end(L) /\ peek(L) \in {" ", "\t", "\r"}
  THEN skip_whitespace_inline([L EXCEPT !.current = @ + 1])
  ELSE L

RECURSIVE read_identifier(_)
read_identifier(L) ==
  IF peek(L) = "x" THEN read_identifier([L EXCEPT !.current = @ + 1]) ELSE L

RECURSIVE pop_indents(_, _)
\* the while loop at lexer.c:512-516
pop_indents(L, indent) ==
  IF Len(L.indent_stack) > 1 /\ indent < current_indent(L)
  THEN pop_indents([L EXCEPT !.indent_stack = SubSeq(@, 1, Len(@) - 1),
                             !.pending_dedents = @ + 1], indent)
  ELSE L

\* the test at lexer.c:498: the line holds no token
skips_line(c) == c \in {"\n", "#", ""}

\* lexer_next_token from "Skip inline whitespace" on (lexer.c:531-560)
scan_token(L0) ==
  the({IF at_end(L)
       THEN IF Len(L.indent_stack) > 1
            THEN [L |-> [L EXCEPT !.indent_stack = SubSeq(@, 1, Len(@) - 1)],
                  token |-> Token("DEDENT", L.current)]
            ELSE [L |-> L, token |-> Token("EOF", L.current)]
       ELSE IF peek(L) = "\n"
       THEN [L |-> [L EXCEPT !.current = @ + 1, !.at_line_start = TRUE],
             token |-> Token("NEWLINE", L.current)]
       ELSE IF peek(L) = "x"
       THEN [L |-> read_identifier(L), token |-> Token("IDENTIFIER", L.current)]
       ELSE [L |-> [L EXCEPT !.current = @ + 1], token |-> Token("ERROR", L.current)] :
       L \in {the({IF peek(W) = "#" THEN skip_comment(W) ELSE W :
                   W \in {skip_whitespace_inline(L0)}})}})

\* lexer_next_token at the start of a line (lexer.c:485-528)
line_start(L0) ==
  the({IF skips_line(peek(m.L))
       THEN scan_token(IF peek(m.L) = "#" THEN skip_comment(m.L) ELSE m.L)
       ELSE IF m.indent > current_indent(m.L)
       THEN [L |-> push_indent(m.L, m.indent), token |-> Token("INDENT", m.L.current)]
       ELSE IF m.indent < current_indent(m.L)
       THEN the({IF P.pending_dedents > 0
                 THEN [L |-> [P EXCEPT !.pending_dedents = @ - 1],
                       token |-> Token("DEDENT", P.current)]
                 ELSE scan_token(P) :
                 P \in {pop_indents(m.L, m.indent)}})
       ELSE scan_token(m.L) :
       m \in {skip_indent([L0 EXCEPT !.at_line_start = FALSE], 0)}})

lexer_next_token(L) ==
  IF L.pending_dedents > 0
  THEN [L |-> [L EXCEPT !.pending_dedents = @ - 1], token |-> Token("DEDENT", L.current)]
  ELSE IF L.at_line_start /\ ~at_end(L) THEN line_start(L)
  ELSE scan_token(L)

InitRun ==
  /\ interp = interpreter_create
  /\ phase = "start"
  /\ handle = value_null
  /\ advances = 0
  /\ results = <<>>
  /\ exit_code = -1
  /\ subject = ""
  /\ uncaught = FALSE
  /\ last = [op |-> "create", arg |-> "", pre_error |-> FALSE, pre |-> <<>>]

\* the run of a program is looked at from its syntax tree on: no text is lexed
Init ==
  /\ InitRun
  /\ lexer = lexer_create(<<>>)

\* run_file on a program file: the definitions, then either statements that
\* use the sequence f, or (f = "") statements that call the loop protocols,
\* raise an error or recover from one
RunFile(f) ==
  /\ phase = "start"
  /\ phase' = "program"
  /\ subject' = f
  /\ interp' = interpreter_execute(observe(interp))
  /\ last' = [op |-> "definitions", arg |-> f, pre_error |-> interp.has_error, pre |-> <<>>]
  /\ UNCHANGED <<handle, advances, results, exit_code, uncaught>>
  /\ UNCHANGED lexer

\* one iteration of AST_PROGRAM's loop, on the statement stmt
TopLevel(stmt, op, arg) ==
  /\ phase = "program"
  /\ interp' = do_eval_stmt(observe(interp), stmt)
  /\ uncaught' = (uncaught \/ interp'.has_error)
  /\ last' = [op |-> op, arg |-> arg, pre_error |-> interp.has_error, pre |-> <<>>]
  /\ UNCHANGED <<phase, handle, exit_code, subject>>

TopDesignateGen ==
  /\ subject \in FuncNames
  /\ ~defined(interp, "g")
  /\ TopLevel(StmtDesignateGen(subject), "designate", subject)
  /\ UNCHANGED <<advances, results>>
  /\ UNCHANGED lexer

TopProceed ==
  /\ subject \in FuncNames
  /\ defined(interp, "g")
  /\ advances < MaxAdvance
  /\ TopLevel(StmtProceed, "proceed", subject)
  /\ advances' = advances + 1
  /\ results' = Append(results, interp'.out[1][1])
  /\ UNCHANGED lexer

TopCycleThrough ==
  /\ subject \in FuncNames \ {"fib"}
  /\ ~defined(interp, "x")
  /\ TopLevel(StmtCycleThrough(subject), "cycle", subject)
  /\ UNCHANGED <<advances, results>>
  /\ UNCHANGED lexer

TopTransmit ==
  /\ subject \in FuncNames
  /\ TopLevel(StmtTransmit(subject), "transmit", subject)
  /\ UNCHANGED <<advances, results>>
  /\ UNCHANGED lexer

TopReceive ==
  /\ TopLevel(StmtReceive, "receive", "")
  /\ UNCHANGED <<advances, results>>
  /\ UNCHANGED lexer

\* With has_error left set by an earlier statement a suspending sequence
\* saves no frame, so count2 yields 0 for ever and the loop that continues
\* on 0 never returns: that statement has no successor state.
TopLoop(kind, sig) ==
  /\ subject = ""
  /\ ~(interp.has_error /\ kind = "gen" /\ sig = "CONTINUE")
  /\ TopLevel(StmtLoop(kind, sig), "loop", <<kind, sig>>)
  /\ UNCHANGED <<advances, results>>
  /\ UNCHANGED lexer

TopError ==
  /\ subject = ""
  /\ TopLevel(StmtError, "error", "")
  /\ UNCHANGED <<advances, results>>
  /\ UNCHANGED lexer

TopAttempt ==
  /\ subject = ""
  /\ count_defined(interp, "err") < MaxRecover
  /\ TopLevel(StmtAttempt, "attempt", "")
  /\ UNCHANGED <<advances, results>>
  /\ UNCHANGED lexer

\* one iteration of AST_PROGRAM's loop; last.pre keeps the state before it
TopLevelPre(stmt, op, arg) ==
  /\ phase = "program"
  /\ interp' = do_eval_stmt(observe(interp), stmt)
  /\ uncaught' = (uncaught \/ interp'.has_error)
  /\ last' = [op |-> op, arg |-> arg, pre_error |-> interp.has_error,
              pre |-> <<[interp |-> observe(interp), handle |-> handle]>>]
  /\ UNCHANGED <<phase, handle, exit_code, subject, advances, results>>

TopRecover(v) ==
  /\ subject = ""
  /\ TopLevelPre(StmtRecover(v), "recover", v)
  /\ UNCHANGED lexer

\* entity e ...: junk is what the malloc'ed Functions of its methods hold
\* where is_sequence lies
TopEntity(e, junk) ==
  /\ e \in EntitiesOf(subject)
  /\ ~defined(interp, e)
  /\ phase = "program"
  /\ interp' = do_eval_stmt([observe(interp) EXCEPT !.uninit = junk], StmtEntity(e))
  /\ uncaught' = (uncaught \/ interp'.has_error)
  /\ last' = [op |-> "entity", arg |-> e, pre_error |-> interp.has_error,
              pre |-> <<[interp |-> observe(interp), handle |-> handle]>>]
  /\ UNCHANGED <<phase, handle, exit_code, subject, advances, results>>
  /\ UNCHANGED lexer

TopDesignateVar ==
  /\ subject \in {"assign", "override"}
  /\ defined(interp, "Setter")
  /\ ~defined(interp, ScopeVar(subject))
  /\ TopLevelPre(StmtDesignateVar(ScopeVar(subject)), "designate_var", "")
  /\ UNCHANGED lexer

TopAssign(d) ==
  /\ subject = "assign"
  /\ defined(interp, "Setter")
  /\ d = 2 => Len(interp.heap) < MaxInstances
  /\ TopLevelPre(StmtAssign(d), "assign", d)
  /\ UNCHANGED lexer

TopOverride(d) ==
  /\ subject = "override"
  /\ defined(interp, "Setter")
  /\ TopLevelPre(StmtOverride(d), "override", d)
  /\ UNCHANGED lexer

TopLookup(w) ==
  /\ subject = "override"
  /\ defined(interp, "g")
  /\ w = "method" => Len(interp.heap) < MaxInstances
  /\ TopLevelPre(StmtLookup(w), "lookup", w)
  /\ UNCHANGED lexer

\* designate n = manifest ... once the entity statements have run, a first
TopManifest(n) ==
  /\ subject \in {"private", "inherit", "rise"}
  /\ \A e \in EntitiesOf(subject) : defined(interp, e)
  /\ ~defined(interp, n)
  /\ n = "b" => defined(interp, "a")
  /\ Len(interp.heap) < MaxInstances
  /\ TopLevelPre(StmtManifest(subject, n), "manifest", n)
  /\ UNCHANGED lexer

\* a protocol statement or a designate statement for a global named p
TopGlobal(p) ==
  /\ subject = "inherit"
  /\ \A q \in GlobalNames \cup EntityNames : ~defined(interp, q)
  /\ TopLevelPre(StmtGlobal(p), "global", p)
  /\ UNCHANGED lexer

TopCall(c) ==
  /\ subject = "inherit"
  /\ \A n \in InstanceNames : defined(interp, n)
  /\ TopLevelPre(StmtCall(c), "invoke", c)
  /\ UNCHANGED lexer

\* designate r = n.m() of the program "rise"; a call that never returns is
\* never left
TopRise(n) ==
  /\ subject = "rise"
  /\ phase = "program"
  /\ \A i \in InstanceNames : defined(interp, i)
  /\ ~defined(interp, "r")
  /\ \E J \in {do_eval_stmt(observe(interp), StmtRise(n))} :
       /\ interp' = IF J.hang THEN [observe(interp) EXCEPT !.hang = TRUE] ELSE J
       /\ phase' = IF J.hang THEN "hung" ELSE phase
       /\ uncaught' = (uncaught \/ J.has_error)
  /\ last' = [op |-> "rise", arg |-> n, pre_error |-> interp.has_error,
              pre |-> <<[interp |-> observe(interp), handle |-> handle]>>]
  /\ UNCHANGED <<handle, exit_code, subject, advances, results>>
  /\ UNCHANGED lexer

TopDesignateList ==
  /\ subject = "list"
  /\ ~defined(interp, "xs")
  /\ TopLevelPre(StmtDesignateList, "designate_list", "")
  /\ UNCHANGED lexer

TopIndexAssign(i) ==
  /\ subject = "list"
  /\ defined(interp, "xs")
  /\ TopLevelPre(StmtIndexAssign(i), "index_assign", i)
  /\ UNCHANGED lexer

TopIndexRead(i) ==
  /\ subject = "list"
  /\ defined(interp, "xs")
  /\ TopLevelPre(StmtIndexRead(i), "index_read", i)
  /\ UNCHANGED lexer

TopSituation(v, at) ==
  /\ subject = "situation"
  /\ TopLevelPre(StmtSituation(v, at), "situation", <<v, at>>)
  /\ UNCHANGED lexer

TopArith(a, b) ==
  /\ subject = "arith"
  /\ TopLevelPre(StmtArith(a, b), "arith", <<a, b>>)
  /\ UNCHANGED lexer

TopDivZero(op, a, z) ==
  /\ subject = "divzero"
  /\ TopLevelPre(StmtDivZero(op, a, z), "divzero", <<op, a, z>>)
  /\ UNCHANGED lexer

\* declare(a % z), for one choice of what the build does with the remainder
\* by zero: traps says whether the process is ended, junk is the integer
\* the operation yields otherwise; a process ended declares nothing
TopModZero(a, z, traps, junk) ==
  /\ subject = "divzero"
  /\ phase = "program"
  /\ \E J \in {do_eval_stmt([observe(interp) EXCEPT !.sigfpe = traps, !.garbage = junk],
                             StmtModZero(a, z))} :
       /\ interp' = IF J.fault THEN [observe(interp) EXCEPT !.fault = TRUE] ELSE J
       /\ phase' = IF J.fault THEN "faulted" ELSE phase
       /\ uncaught' = (uncaught \/ J.has_error)
  /\ last' = [op |-> "modzero", arg |-> <<a, z, traps, junk>>,
              pre_error |-> interp.has_error, pre |-> <<>>]
  /\ UNCHANGED <<handle, exit_code, subject, advances, results>>
  /\ UNCHANGED lexer

\* a slice statement of the program; a statement whose string loop runs away
\* is never left, and nothing of it is declared
TopSlice(kind, start, end, step) ==
  /\ subject = "slice"
  /\ phase = "program"
  /\ last.op = "definitions"
  /\ \E J \in {do_eval_stmt(observe(interp), StmtSlice(kind, start, end, step))} :
       /\ interp' = IF J.hang THEN [observe(interp) EXCEPT !.hang = TRUE] ELSE J
       /\ phase' = IF J.hang THEN "hung" ELSE phase
       /\ uncaught' = (uncaught \/ J.has_error)
  /\ last' = [op |-> "slice", arg |-> <<kind, start, end, step>>,
              pre_error |-> interp.has_error, pre |-> <<>>]
  /\ UNCHANGED <<handle, exit_code, subject, advances, results>>
  /\ UNCHANGED lexer

\* a span statement of the program; a statement whose loop runs away is
\* never left, and nothing of it is declared
TopSpan(args) ==
  /\ subject = "span"
  /\ phase = "program"
  /\ last.op = "definitions"
  /\ \E J \in {do_eval_stmt(observe(interp), StmtSpan(args))} :
       /\ interp' = IF J.hang THEN [observe(interp) EXCEPT !.hang = TRUE] ELSE J
       /\ phase' = IF J.hang THEN "hung" ELSE phase
       /\ uncaught' = (uncaught \/ J.has_error)
  /\ last' = [op |-> "span", arg |-> args,
              pre_error |-> interp.has_error, pre |-> <<>>]
  /\ UNCHANGED <<handle, exit_code, subject, advances, results>>
  /\ UNCHANGED lexer

TopSplit(s, d) ==
  /\ subject = "split"
  /\ last.op = "definitions"
  /\ TopLevelPre(StmtSplit(s, d), "split", <<s, d>>)
  /\ UNCHANGED lexer

\* the statement, for one choice of the bytes the operand leaves unwritten
TopMismatch(op, t, junk) ==
  /\ subject = "mismatch"
  /\ phase = "program"
  /\ last.op = "definitions"
  /\ interp' = do_eval_stmt([observe(interp) EXCEPT !.garbage = junk], StmtMismatch(op, t))
  /\ uncaught' = (uncaught \/ interp'.has_error)
  /\ last' = [op |-> "mismatch", arg |-> <<op, t, junk>>,
              pre_error |-> interp.has_error, pre |-> <<>>]
  /\ UNCHANGED <<phase, handle, exit_code, subject, advances, results>>
  /\ UNCHANGED lexer

TopCapture(m, v) ==
  /\ subject = "closure"
  /\ last.op = "definitions"
  /\ TopLevelPre(StmtCapture(m, v), "capture", <<m, v>>)
  /\ UNCHANGED lexer

\* declare(f()), for one choice of how the build reads freed memory; a
\* process ended by the fault declares nothing
TopInvokeCaptured(faults) ==
  /\ subject = "closure"
  /\ phase = "program"
  /\ last.op = "capture"
  /\ \E J \in {do_eval_stmt([observe(interp) EXCEPT !.fault_on_freed = faults],
                             StmtInvokeCaptured)} :
       /\ interp' = IF J.fault THEN [observe(interp) EXCEPT !.dangling = TRUE, !.fault = TRUE]
                    ELSE J
       /\ phase' = IF J.fault THEN "faulted" ELSE phase
       /\ uncaught' = (uncaught \/ J.has_error)
  /\ last' = [op |-> "invoke_captured", arg |-> last.arg,
              pre_error |-> interp.has_error, pre |-> <<>>]
  /\ UNCHANGED <<handle, exit_code, subject, advances, results>>
  /\ UNCHANGED lexer

TopDefine(name, parent) ==
  /\ subject = "entities"
  /\ phase = "program"
  /\ Len(interp.classes) < MaxEntities
  /\ interp' = do_eval_stmt(observe(interp), StmtDefine(name, parent))
  /\ uncaught' = (uncaught \/ interp'.has_error)
  /\ last' = [op |-> "define", arg |-> <<name, parent>>,
              pre_error |-> interp.has_error, pre |-> <<>>]
  /\ UNCHANGED <<phase, handle, exit_code, subject, advances, results>>
  /\ UNCHANGED lexer

\* AST_PROGRAM's loop over the first four statements of "fields"
TopCells ==
  /\ subject = "fields"
  /\ phase = "program"
  /\ last.op = "definitions"
  /\ interp' = eval_stmts(observe(interp), Cells, 1, TRUE)
  /\ uncaught' = (uncaught \/ interp'.has_error)
  /\ last' = [op |-> "cells", arg |-> "", pre_error |-> interp.has_error, pre |-> <<>>]
  /\ UNCHANGED <<phase, handle, exit_code, subject, advances, results>>
  /\ UNCHANGED lexer

TopFieldWrite(n, v) ==
  /\ subject = "fields"
  /\ defined(interp, "b")
  /\ TopLevelPre(StmtFieldWrite(n, v), "field_write", <<n, v>>)
  /\ UNCHANGED lexer

TopFieldRead(n) ==
  /\ subject = "fields"
  /\ defined(interp, "b")
  /\ TopLevelPre(StmtFieldRead(n), "field_read", <<n>>)
  /\ UNCHANGED lexer

TopBindArg(kind) ==
  /\ subject = "params"
  /\ last.op = "definitions"
  /\ TopLevelPre(StmtBindArg(kind), "bind_arg", <<kind, "">>)
  /\ UNCHANGED lexer

TopCreate ==
  /\ subject = "params"
  /\ last.op = "bind_arg"
  /\ TopLevelPre(StmtCreate, "create", last.arg)
  /\ UNCHANGED lexer

TopReassign(how) ==
  /\ subject = "params"
  /\ last.op = "create"
  /\ how = "index" => last.arg[1] = "list"
  /\ TopLevelPre(StmtReassign(last.arg[1], how), "reassign", <<last.arg[1], how>>)
  /\ UNCHANGED lexer

TopReadParam ==
  /\ subject = "params"
  /\ last.op \in {"create", "reassign"}
  /\ TopLevelPre(StmtReadParam, "read_param", last.arg)
  /\ UNCHANGED lexer

TopLogic(op, l, r) ==
  /\ subject = "logic"
  /\ last.op = "definitions"
  /\ TopLevelPre(StmtLogic(op, l, r), "logic", <<op, l, r>>)
  /\ UNCHANGED lexer

TopEqual(op, l, r) ==
  /\ subject = "equal"
  /\ last.op = "definitions"
  /\ TopLevelPre(StmtEqual(op, l, r), "equal", <<op, l, r>>)
  /\ UNCHANGED lexer

TopAccess(who, rw) ==
  /\ subject = "private"
  /\ \A n \in InstanceNames : defined(interp, n)
  /\ TopLevelPre(StmtAccess(who, rw), "access", <<who, rw>>)
  /\ UNCHANGED lexer

TopInvoke(who) ==
  /\ subject = "private"
  /\ \A n \in InstanceNames : defined(interp, n)
  /\ TopLevelPre(StmtInvoke(who), "invoke_private", who)
  /\ UNCHANGED lexer

TopDeclare ==
  /\ subject = ""
  /\ TopLevel(StmtDeclare, "declare", "")
  /\ UNCHANGED <<advances, results>>
  /\ UNCHANGED lexer

\* run_source_repl after interpreter_execute: the exit code of the run
Exit ==
  /\ phase = "program"
  /\ phase' = "exited"
  /\ exit_code' = IF interp.has_error THEN 1 ELSE 0
  /\ last' = [op |-> "exit", arg |-> "", pre_error |-> interp.has_error, pre |-> <<>>]
  /\ UNCHANGED <<interp, handle, advances, results, subject, uncaught>>
  /\ UNCHANGED lexer

\* a host: interpreter_execute on the definitions, then interpreter_call on
\* the sequence function f; handle is the Value it returns
Embed(f) ==
  /\ phase = "start"
  /\ phase' = "host"
  /\ subject' = f
  /\ \E I \in {interpreter_execute(observe(interp))} :
       \E r \in {do_interpreter_call(I, env_get(I.current_env, f).value,
                                      value_null, <<>>)} :
         /\ interp' = r.I
         /\ handle' = r.val
  /\ last' = [op |-> "call", arg |-> f, pre_error |-> interp.has_error, pre |-> <<>>]
  /\ UNCHANGED <<advances, results, exit_code, uncaught>>
  /\ UNCHANGED lexer

\* the host calls do_interpreter_gen_next(interp, handle)
HostGenNext ==
  /\ phase = "host"
  /\ advances < MaxAdvance
  /\ \E r \in {do_interpreter_gen_next(observe(interp), handle.gen)} :
       /\ interp' = r.I
       /\ handle' = value_generator(r.gen)
       /\ results' = Append(results, r.val)
  /\ advances' = advances + 1
  /\ last' = [op |-> "gen_next", arg |-> subject, pre_error |-> interp.has_error,
              pre |-> <<[interp |-> interp, handle |-> handle]>>]
  /\ UNCHANGED <<phase, exit_code, subject, uncaught>>
  /\ UNCHANGED lexer

\* the host takes a copy of its handle with value_copy and goes on with the
\* copy
HostCopy ==
  /\ phase = "host"
  /\ handle.type = "sequence"
  /\ phase' = "copied"
  /\ handle' = value_copy(handle)
  /\ last' = [op |-> "copy", arg |-> subject, pre_error |-> interp.has_error,
              pre |-> <<[interp |-> observe(interp), handle |-> handle]>>]
  /\ UNCHANGED <<interp, advances, results, exit_code, subject, uncaught>>
  /\ UNCHANGED lexer

Next ==
  \/ \E f \in FuncNames \cup {""} \cup Suites : RunFile(f)
  \/ TopDesignateGen
  \/ TopProceed
  \/ TopCycleThrough
  \/ TopTransmit
  \/ TopReceive
  \/ \E kind \in LoopKinds, sig \in LoopSignals : TopLoop(kind, sig)
  \/ TopError
  \/ TopAttempt
  \/ \E v \in RecoverKinds : TopRecover(v)
  \/ TopDeclare
  \/ \E e \in EntityNames, junk \in BOOLEAN : TopEntity(e, junk)
  \/ TopDesignateVar
  \/ \E d \in Depths : TopAssign(d)
  \/ \E d \in {0, 1} : TopOverride(d)
  \/ \E w \in LookupScopes : TopLookup(w)
  \/ \E n \in InstanceNames : TopManifest(n)
  \/ \E p \in GlobalNames : TopGlobal(p)
  \/ \E c \in CallNames : TopCall(c)
  \/ \E n \in InstanceNames : TopRise(n)
  \/ \E who \in InvokeFrom : TopInvoke(who)
  \/ \E args \in SpanArgs : TopSpan(args)
  \/ \E op \in EqualityOps, l \in DOMAIN Comparands, r \in DOMAIN Comparands :
       TopEqual(op, l, r)
  \/ \E v \in Scrutinees, at \in OtherwiseAt : TopSituation(v, at)
  \/ \E a \in Operands, b \in Divisors : TopArith(a, b)
  \/ \E op \in DivisionOps, a \in DOMAIN Numerators, z \in DOMAIN ZeroDivisors :
       TopDivZero(op, a, z)
  \/ \E a \in DOMAIN Numerators, z \in DOMAIN ZeroDivisors, traps \in BOOLEAN,
          junk \in Indeterminate : TopModZero(a, z, traps, junk)
  \/ \E kind \in SliceKinds, start \in SliceStarts, end \in SliceEnds, step \in SliceSteps :
       TopSlice(kind, start, end, step)
  \/ \E s \in Texts, d \in Delimiters : TopSplit(s, d)
  \/ \E op \in NumericOps, t \in NonNumbers, junk \in Indeterminate :
       TopMismatch(op, t, junk)
  \/ \E m \in Makers, v \in Captured : TopCapture(m, v)
  \/ \E faults \in BOOLEAN : TopInvokeCaptured(faults)
  \/ \E name \in DefinedNames, parent \in ParentNames : TopDefine(name, parent)
  \/ TopCells
  \/ \E n \in InstanceNames, v \in FieldValues : TopFieldWrite(n, v)
  \/ \E n \in InstanceNames : TopFieldRead(n)
  \/ \E kind \in ArgKinds : TopBindArg(kind)
  \/ TopCreate
  \/ \E how \in Reassignments : TopReassign(how)
  \/ TopReadParam
  \/ \E op \in LogicOps, l \in DOMAIN LeftOperands, r \in DOMAIN RightOperands :
       TopLogic(op, l, r)
  \/ TopDesignateList
  \/ \E i \in Indices : TopIndexAssign(i)
  \/ \E i \in Indices : TopIndexRead(i)
  \/ \E who \in AccessFrom, rw \in AccessKinds : TopAccess(who, rw)
  \/ Exit
  \/ \E f \in FuncNames \cup ResumeNames : Embed(f)
  \/ HostGenNext
  \/ HostCopy

Spec == Init /\ [][Next]_vars

\* lexer_create(source, filename) on a source text
LexInit ==
  /\ InitRun
  /\ \E source \in Sources : lexer = lexer_create(source)

\* one pass of the loop of lexer_tokenize_all (lexer.c:668-680): the token
\* lexer_next_token returns is stored; the loop ends with EOF or an error
Tokenize ==
  /\ ~(lexer.tokens # <<>> /\ lexer.tokens[Len(lexer.tokens)].type \in {"EOF", "ERROR"})
  /\ \E r \in {lexer_next_token(lexer)} :
       lexer' = [r.L EXCEPT !.tokens = Append(@, r.token)]
  /\ UNCHANGED run_vars

LexNext == Tokenize

LexSpec == LexInit /\ [][LexNext]_vars

(***************************************************************************)
(* What the sequences of the programs under test are written to yield.     *)
(***************************************************************************)
RECURSIVE Fibonacci(_)
Fibonacci(k) == IF k <= 1 THEN k ELSE Fibonacci(k - 1) + Fibonacci(k - 2)

pair(i, j) == value_list(<<value_int(i), value_int(j)>>)

\* the values the body of f yields, in order (for fib, as many as are asked for)
Yields(f) ==
  CASE f = "fib" -> [k \in 1..(MaxAdvance + 1) |-> value_int(Fibonacci(k - 1))]
    [] f = "pairs" -> <<pair(0, 0), pair(0, 1), pair(1, 0), pair(1, 1)>>
    [] f = "nest" -> <<value_int(10), value_int(11), value_int(20), value_int(21)>>
    [] f = "count2" -> <<value_int(0), value_int(1)>>
    [] f = "over_gen" -> <<value_int(10), value_int(20), value_int(11), value_int(21),
                           value_int(99)>>
    [] f = "deleg_list" -> <<value_int(0), value_null, value_int(1), value_int(2),
                             value_int(3)>>
    [] f = "deleg_gen" -> <<value_int(0), value_int(1), value_int(9)>>
    [] f = "recv" -> <<value_list(<<value_null, value_null>>), value_null>>
    [] f = "cond_flip" -> <<value_int(1), value_int(2)>>
    [] f = "empty" -> <<>>
    [] f = "err_gen" -> <<value_int(1)>>
    [] f = "res_nest" -> <<value_int(1), value_int(2)>>
    [] f = "shadow" -> <<value_int(2), value_int(2)>>
    [] f = "via_call" -> <<value_int(1), value_int(2)>>
    [] f = "in_else" -> <<value_int(1), value_int(2)>>
    [] f = "in_sit" -> <<value_int(1), value_int(2)>>
    [] f = "in_try" -> <<value_int(1), value_int(2)>>
    [] f = "loop_try" -> <<value_int(0), value_int(1)>>
    [] f = "err_yield" -> <<value_int(1)>>

\* the value the k-th advance returns: the k-th yield, void once the body is over
Nth(f, k) == IF k <= Len(Yields(f)) THEN Yields(f)[k] ELSE value_null

\* the first arguments of the declare calls of the last step
Declared == [i \in 1..Len(interp.out) |-> interp.out[i][1]]

\* the values the global scope binds to name, oldest binding first
Bound(name) ==
  LET bs == SelectSeq(global_env(interp), LAMBDA e : e.name = name)
  IN [i \in 1..Len(bs) |-> bs[Len(bs) + 1 - i].value]

AdvancedAsWritten == \A k \in 1..Len(results) : results[k] = Nth(subject, k)

\* the frame kinds a yield in the innermost loop body of f saves, innermost first
Frames(f) ==
  CASE f = "pairs" -> <<"BLOCK", "CYCLE_FROM_TO", "BLOCK", "CYCLE_FROM_TO", "BLOCK">>
    [] f = "nest" -> <<"BLOCK", "CYCLE_WHILE", "BLOCK", "CYCLE_THROUGH", "BLOCK">>
    [] f = "over_gen" -> <<"BLOCK", "CYCLE_THROUGH", "BLOCK">>

(***************************************************************************)
(* C1.  For every sequence function with a finite output v1..vn,           *)
(* `cycle through F() as x` binds x to exactly v1..vn in order and then    *)
(* ends with the generator done.                                           *)
(***************************************************************************)
C1_CycleThroughVisitsAll ==
  (last.op = "cycle" /\ ~last.pre_error /\ subject # "err_gen") =>
    /\ Bound("x") = Yields(subject)
    /\ Len(interp.iter_status) > 0
    /\ interp.iter_status[Len(interp.iter_status)] = "done"

(***************************************************************************)
(* C2.  A generator bound to a variable keeps its state between calls:     *)
(* after `designate g = F()` the k-th proceed(g) returns the k-th value    *)
(* F's body yields.                                                        *)
(***************************************************************************)
C2_HandleKeepsState ==
  (last.op = "proceed" /\ ~last.pre_error /\ subject \notin {"err_gen", "cond_flip"}) =>
    AdvancedAsWritten

(***************************************************************************)
(* C3.  A yield inside nested from/to, while and through loops saves one   *)
(* frame per enclosing block and loop, and the next advance resumes every  *)
(* loop at its saved counter: pairs yields [0,0],[0,1],[1,0],[1,1] and     *)
(* then finishes.                                                          *)
(***************************************************************************)
C3_NestedLoopsResume ==
  (phase = "host" /\ subject \in {"pairs", "nest", "over_gen"}) =>
    /\ AdvancedAsWritten
    /\ (advances > Len(Yields(subject))) => handle.gen.status = "done"
    /\ (advances \in 1..Len(Yields(subject))) => handle.gen.status = "suspended"
    /\ (advances \in 1..4) =>
         [i \in 1..Len(handle.gen.stack) |-> handle.gen.stack[i].type] = Frames(subject)
    /\ (subject = "pairs" /\ advances \in 1..4) =>
         /\ handle.gen.stack[2].current = results[advances].items[2].n
         /\ handle.gen.stack[4].current = results[advances].items[1].n
    /\ (subject = "nest" /\ advances \in 1..4) =>
         handle.gen.stack[4].index = (advances - 1) \div 2

C3_Witness ==
  /\ phase = "host" /\ subject = "pairs"
  /\ advances = 5
  /\ results[4] = pair(1, 1)
  /\ handle.gen.status = "done"

(***************************************************************************)
(* C4.  Done is absorbing: an advance of a done generator returns void,    *)
(* executes no statement and leaves the generator and the interpreter      *)
(* unchanged.                                                              *)
(***************************************************************************)
C4_DoneIsAbsorbing ==
  (last.op = "gen_next" /\ last.pre[1].handle.gen.status = "done") =>
    /\ results[Len(results)] = value_null
    /\ interp.steps = 0
    /\ interp.out = <<>>
    /\ handle = last.pre[1].handle
    /\ observe(interp) = observe(last.pre[1].interp)

C4_Witness ==
  /\ last.op = "gen_next"
  /\ subject = "pairs"
  /\ last.pre[1].handle.gen.status = "done"
  /\ handle.gen.status = "done"

(***************************************************************************)
(* C5.  When an advance of a generator returns, whether it yielded,        *)
(* finished or raised an error, at top level or nested inside another      *)
(* advance or resumption, the current environment, current generator,      *)
(* is_resuming, resume stack and resume count are the caller's, and        *)
(* has_return is false.                                                    *)
(***************************************************************************)
C5_AdvanceRestoresCaller ==
  \A i \in 1..Len(interp.adv_log) :
    /\ interp.adv_log[i].after = interp.adv_log[i].before
    /\ ~interp.adv_log[i].has_return

\* an advance made while the caller, itself a generator, was resuming
C5_Witness ==
  \E i \in 1..Len(interp.adv_log) :
    /\ ~interp.adv_log[i].was_done
    /\ interp.adv_log[i].before.is_resuming
    /\ interp.adv_log[i].before.resume_count > 0
    /\ interp.adv_log[i].before.current_gen # <<>>

(***************************************************************************)
(* C6.  delegate over a list yields each element once, in index order,     *)
(* and the advance after the last element continues after the delegate;    *)
(* delegate over a sub-generator yields each of its values once, in order, *)
(* and continues after it is done.  The iterable expression is evaluated   *)
(* once: its declare runs in the advance that reaches the delegate and in  *)
(* no later one.                                                           *)
(***************************************************************************)
C6_DelegateYieldsEachOnce ==
  (phase = "host" /\ subject \in {"deleg_list", "deleg_gen"}) =>
    /\ AdvancedAsWritten
    /\ (advances \in 1..Len(Yields(subject))) => handle.gen.status = "suspended"
    /\ (advances > Len(Yields(subject))) => handle.gen.status = "done"
    /\ (last.op = "gen_next") =>
         Len(interp.out) = IF advances = (IF subject = "deleg_list" THEN 2 ELSE 1)
                           THEN 1 ELSE 0

C6_Witness ==
  /\ phase = "host" /\ subject = "deleg_list"
  /\ advances = 6
  /\ results[5] = value_int(3)
  /\ handle.gen.status = "done"

(***************************************************************************)
(* C7.  transmit(gen, v) stores v and advances gen; the first receive() in *)
(* the running generator returns v and clears the slot, so a second        *)
(* receive() returns void; receive() with no generator running returns     *)
(* void.                                                                   *)
(***************************************************************************)
C7_TransmitReceive ==
  /\ (last.op = "transmit" /\ subject = "recv") =>
       Declared = <<value_list(<<value_int(5), value_null>>)>>
  /\ (last.op = "transmit" /\ ~last.pre_error /\ subject \notin {"recv", "deleg_gen"}) =>
       Declared = <<Nth(subject, 1)>>
  /\ (last.op = "receive") => Declared = <<value_null>>

C7_Witness ==
  /\ last.op = "transmit" /\ subject = "recv"
  /\ Declared = <<value_list(<<value_int(5), value_null>>)>>

(***************************************************************************)
(* C8.  break and continue unwind exactly one loop for every loop kind:    *)
(* break ends the loop, continue starts its next iteration with the full   *)
(* body, has_break and has_continue are false when the loop completes and  *)
(* the statements after the loop run.                                      *)
(***************************************************************************)
C8_LoopsConsumeSignals ==
  (last.op = "loop" /\ ~last.pre_error) =>
    /\ ~interp.has_break
    /\ ~interp.has_continue
    /\ Declared = IF last.arg[2] = "BREAK"
                  THEN <<value_string("after")>>
                  ELSE <<value_int(1), value_string("after")>>

(***************************************************************************)
(* C9.  After a runtime error that no attempt/recover catches, no          *)
(* subsequent top-level statement of the program is executed.              *)
(***************************************************************************)
C9_NoStatementAfterError ==
  (phase = "program" /\ last.pre_error /\ last.op # "definitions") =>
    /\ interp.steps = 0
    /\ interp.out = <<>>

(***************************************************************************)
(* C10.  If a runtime error is raised and not caught by an enclosing       *)
(* attempt/recover, the run ends with has_error set and exit code 1,       *)
(* whatever statements come after the failing one.                         *)
(***************************************************************************)
C10_UncaughtErrorExitsOne ==
  (phase = "exited" /\ uncaught) =>
    /\ interp.has_error
    /\ exit_code = 1

(***************************************************************************)
(* C11.  When a statement of an attempt's try body raises a runtime error, *)
(* the rest of the try body is skipped, the error flag is cleared, the     *)
(* message is bound to the recover variable when one is named, the recover *)
(* body runs and no error is set after the attempt; an error raised by the *)
(* recover body itself is still set after the attempt.                     *)
(***************************************************************************)
DivisionByZero == "Division by zero. Even infinity has its limits."

C11_AttemptRecovers ==
  /\ (last.op = "attempt") =>
        /\ ~interp.has_error
        /\ Declared = <<value_string(DivisionByZero)>>
        /\ env_get(interp.current_env, "err").value = value_string(DivisionByZero)
  /\ (last.op = "recover" /\ last.arg = "anon") =>
        /\ ~interp.has_error
        /\ Declared = <<value_string("recovered")>>
        /\ global_env(interp) = global_env(last.pre[1].interp)
  /\ (last.op = "recover" /\ last.arg = "fail") =>
        /\ interp.has_error
        /\ interp.error_buffer = "is unknown. Perhaps you intended to designate it first."
        /\ Declared = <<>>

C11_Witness ==
  /\ last.op = "attempt"
  /\ last.pre_error
  /\ ~interp.has_error
  /\ Declared = <<value_string(DivisionByZero)>>

(***************************************************************************)
(* C12.  An ordinary assignment x = v executed at any nesting depth        *)
(* mutates the nearest existing binding of x in the whole parent chain up  *)
(* to the global scope, and defines x in the current scope only when no    *)
(* scope of the chain binds x; a get of x then returns v.                  *)
(***************************************************************************)
C12_AssignMutatesNearest ==
  (last.op = "assign" /\ Declared # <<>>) =>
    LET v == value_int(AssignedAt(last.arg))
        x == env_get(interp.current_env, "x")
    IN /\ Declared = <<v>>
       /\ IF defined(last.pre[1].interp, "x")
          THEN x.value = v /\ count_defined(interp, "x") = 1
          ELSE IF last.arg = 0 THEN x.value = v ELSE ~x.found

(***************************************************************************)
(* C13.  After override g = v executed in any scope, a lookup of g from    *)
(* any scope (global, a protocol's call frame, a method, a generator, and  *)
(* a scope that holds a local binding of g) resolves to v.                 *)
(***************************************************************************)
C13_OverrideResolvesEverywhere ==
  (/\ last.op = "lookup"
   /\ \/ last.arg = "shadowing"
      \/ env_get(last.pre[1].interp.current_env, "g").value = value_int(Overridden.v)) =>
    \A i \in 1..Len(Declared) : Declared[i] = value_int(Overridden.v)

(***************************************************************************)
(* C14.  A read or write of a member whose name starts with _ on an        *)
(* instance succeeds only while the bound self is that same instance; from *)
(* top level, from a plain protocol and from a method bound to another     *)
(* instance of the class it fails with the private access error, the read  *)
(* yields void and the write leaves the field unchanged.  The methods of   *)
(* the cases "other", "self" and "same" are those whose body runs when     *)
(* called (is_sequence false).                                             *)
(***************************************************************************)
FieldOf(I, n) == env_get(<<I.heap[env_get(I.current_env, n).value.ref].fields>>, "_v")

C14_PrivateOnlyThroughSelf ==
  (last.op = "access" /\ ~last.pre_error) =>
    LET who == last.arg[1]
        rw == last.arg[2]
        pre == last.pre[1].interp
    IN /\ who \in {"top", "protocol"} \/ (who = "other" /\ ~interp.uninit) =>
            /\ interp.has_error
            /\ interp.error_buffer =
                 (IF rw = "read" THEN "Access to private member inhibited."
                  ELSE "Modification of private member inhibited.")
            /\ rw = "read" => Declared = <<value_null>>
            /\ interp.heap = pre.heap
       /\ (who \in {"self", "same"} /\ ~interp.uninit) =>
            /\ ~interp.has_error
            /\ rw = "read" => /\ Declared = <<FieldOf(pre, "a").value>>
                              /\ interp.heap = pre.heap
            /\ rw = "write" => /\ FieldOf(interp, "a").value = value_int(0)
                               /\ FieldOf(interp, "b") = FieldOf(pre, "b")

C14_Witness ==
  /\ last.op = "access"
  /\ last.arg = <<"other", "write">>
  /\ ~last.pre_error
  /\ ~interp.uninit
  /\ interp.has_error
  /\ FieldOf(interp, "a").value = value_int(Constructed("a"))

(***************************************************************************)
(* C15.  A method call on an instance resolves the name in the instance's  *)
(* class and then in its parents, and ascend m() resolves m from the       *)
(* parent of self's class and calls it with the same self: with B          *)
(* inheriting A, b.greet() is "AB" and the inherited b.up() is "A";        *)
(* ascend fails when self's class has no parent and when the parent chain  *)
(* does not define m.                                                      *)
(***************************************************************************)
ClassOf(I, n) == I.heap[env_get(I.current_env, n).value.ref].class_def
\* the Functions of the class and of its parents have is_sequence false
RunsBody(cls) ==
  \A i \in 1..Len(class_chain(cls)) :
    \A j \in 1..Len(class_chain(cls)[i]) : ~class_chain(cls)[i][j].value.is_sequence
NoParent == "This entity does not ascend to any parent."
NoParentProtocol == "Parent protocol 'helper' not found."

C15_MethodAndAscendResolution ==
  (/\ last.op = "invoke"
   /\ ~last.pre_error
   /\ ClassOf(interp, "b").parent # <<>>) =>
    /\ last.arg = "greet" => ~interp.has_error /\ Declared = <<value_string("AB")>>
    /\ last.arg = "up" => ~interp.has_error /\ Declared = <<value_string("A")>>
    /\ last.arg = "a_up" => interp.has_error /\ interp.error_buffer = NoParent
    /\ (last.arg = "miss" /\ ~defined(interp, "helper")) =>
         interp.has_error /\ interp.error_buffer = NoParentProtocol

(***************************************************************************)
(* C16.  The lookup of a method call, of a member access, of ascend and of *)
(* construct is confined to the instance's fields and its class chain: for *)
(* a name no class of the chain defines it fails (for construct: calls     *)
(* nothing), also when the global scope binds that name.                   *)
(***************************************************************************)
C16_LookupConfinedToClassChain ==
  /\ (last.op = "invoke" /\ ~last.pre_error) =>
       /\ last.arg = "helper" =>
            /\ interp.has_error
            /\ interp.error_buffer = "Method 'helper' not found."
            /\ Declared = <<value_null>>
       /\ last.arg = "tag" =>
            /\ interp.has_error
            /\ interp.error_buffer = "Member 'tag' not found on instance of 'A'."
            /\ Declared = <<value_null>>
       /\ (/\ last.arg = "miss"
           /\ ClassOf(interp, "b").parent # <<>>
           /\ RunsBody(ClassOf(interp, "b"))) =>
            /\ interp.has_error
            /\ interp.error_buffer = NoParentProtocol
            /\ Declared = <<value_null>>
  /\ (last.op = "manifest" /\ subject = "inherit" /\ ~last.pre_error) =>
       ~interp.has_error /\ Declared = <<>>

(***************************************************************************)
(* C17.  entity C inherits P executed when the global scope binds no class *)
(* named P fails with a runtime error.                                     *)
(***************************************************************************)
C17_UndefinedParentFails ==
  (last.op = "entity" /\ last.arg = "B" /\ ~defined(last.pre[1].interp, "A")) =>
    interp.has_error

(***************************************************************************)
(* C18.  After xs[i] = v on a variable xs holding a list, with i inside    *)
(* the list, xs[i] evaluates to v and the other elements and the length    *)
(* are unchanged; with i outside the list the statement fails with the     *)
(* index error and xs is unchanged.                                        *)
(***************************************************************************)
ListOf(I) == env_get(I.current_env, "xs").value

C18_IndexAssignRoundTrips ==
  (last.op = "index_assign" /\ ~last.pre_error) =>
    LET i == last.arg
        before == ListOf(last.pre[1].interp)
        after == ListOf(interp)
    IN IF i >= 0 /\ i < Len(before.items)
       THEN /\ ~interp.has_error
            /\ eval_index(interp, Index(Id("xs"), IndexLit(i))).val = value_int(Updated.v)
            /\ Len(after.items) = Len(before.items)
            /\ \A k \in 1..Len(before.items) :
                 k # i + 1 => after.items[k] = before.items[k]
       ELSE /\ interp.has_error
            /\ interp.error_buffer = "List index out of bounds."
            /\ after = before

(***************************************************************************)
(* C19.  A situation statement evaluates its scrutinee once, tests the     *)
(* values of the alignments in source order with equals, runs the body of  *)
(* the first alignment with a matching value and of no other, and runs     *)
(* the otherwise body exactly when no value matched, wherever otherwise    *)
(* stands among the alignments.                                            *)
(***************************************************************************)
\* the values of the alignments in source order
Tested == <<1, 2, 2, 3>>
TestedBody == <<1, 1, 2, 2>>
FirstMatch(v) ==
  IF \E k \in 1..Len(Tested) : Tested[k] = v
  THEN CHOOSE k \in 1..Len(Tested) : Tested[k] = v /\ \A j \in 1..(k - 1) : Tested[j] # v
  ELSE 0
ExpectedOutput(v, at) ==
  LET m == FirstMatch(v)
      tests == [k \in 1..(IF m = 0 THEN Len(Tested) ELSE m) |-> value_int(Tested[k])]
      body == IF m > 0 THEN <<value_string(BodyOf(TestedBody[m]))>>
              ELSE IF at > 0 THEN <<value_string("otherwise")>>
              ELSE <<>>
  IN <<value_string("probe")>> \o tests \o body

C19_SituationFirstMatch ==
  (last.op = "situation") =>
    /\ Declared = ExpectedOutput(last.arg[1], last.arg[2])
    /\ interp.has_error = last.pre_error

C19_Witness ==
  /\ last.op = "situation"
  /\ last.arg = <<2, 1>>
  /\ Declared = <<value_string("probe"), value_int(1), value_int(2),
                  value_string("one-two")>>

(***************************************************************************)
(* C20.  For integers a and b, b not 0, a // b * b + a % b is a, a // b is *)
(* the quotient truncated toward zero, and a % b is zero or has the sign   *)
(* of a.                                                                   *)
(***************************************************************************)
Sign(x) == IF x > 0 THEN 1 ELSE IF x < 0 THEN 0 - 1 ELSE 0

C20_DivModIdentity ==
  (last.op = "arith") =>
    LET a == last.arg[1]
        b == last.arg[2]
    IN /\ interp.has_error = last.pre_error
       /\ Len(Declared) = 1
       /\ Declared[1].type = "list"
       /\ LET sum == Declared[1].items[1]
              q == Declared[1].items[2]
              r == Declared[1].items[3]
          IN /\ sum = value_int(a)
             /\ q.type = "int" /\ r.type = "int"
             /\ abs(q.n) * abs(b) <= abs(a)
             /\ abs(a) < (abs(q.n) + 1) * abs(b)
             /\ q.n = 0 \/ Sign(q.n) = Sign(a) * Sign(b)
             /\ r.n = 0 \/ Sign(r.n) = Sign(a)

C20_Witness ==
  /\ last.op = "arith"
  /\ last.arg = <<0 - 7, 2>>
  /\ Declared = <<value_list(<<value_int(0 - 7), value_int(0 - 3), value_int(0 - 1)>>)>>

(***************************************************************************)
(* C21.  For every numeric a, a / 0 and a // 0, with an integer or a float *)
(* zero divisor, raise the division by zero error: has_error is set, the   *)
(* message is recorded and the expression yields void.                     *)
(***************************************************************************)
C21_DivisionByZeroRaises ==
  (last.op = "divzero") =>
    /\ interp.has_error
    /\ interp.error_buffer = DivisionByZero
    /\ Declared = <<value_null>>

C21_Witness ==
  /\ last.op = "divzero"
  /\ last.arg = <<"INT_DIV", 4, 2>>
  /\ ~last.pre_error
  /\ interp.has_error
  /\ Declared = <<value_null>>

\* what a slice with a step below 0 is to hold: the elements at the indices
\* from i downward in steps of -step while the index is greater than end
RECURSIVE Downward(_, _, _, _)
Downward(elements, i, end, step) ==
  IF i > end /\ i >= 0
  THEN <<elements[i + 1]>> \o Downward(elements, i + step, end, step)
  ELSE <<>>

SliceElements(kind) ==
  IF kind = "list" THEN <<value_int(1), value_int(2), value_int(3), value_int(4)>>
  ELSE <<"a", "b", "c", "d">>

ExpectedSlice(kind, start, end, step) ==
  LET elements == Downward(SliceElements(kind),
                           slice_start(Len(SliceElements(kind)), start) - 1,
                           slice_end(Len(SliceElements(kind)), end), step)
  IN IF kind = "list" THEN value_list(elements) ELSE value_string(string_of(elements))

\* C22: a slice statement with a step below 0 is left, for the list and for
\* the string, and declares the new value that holds the elements at the
\* indices min(start, length) - 1 downward in steps of |step| while the
\* index is greater than end; a slice with step 0 fails with the message of
\* the zero step and yields void.
C22_NegativeStepSlice ==
  (last.op = "slice") =>
    /\ last.arg[4] = 0 =>
         /\ interp.has_error
         /\ interp.error_buffer = "Slice step cannot be zero"
         /\ Declared = <<value_null>>
    /\ last.arg[4] < 0 =>
         /\ phase # "hung"
         /\ ~interp.has_error
         /\ Declared = <<ExpectedSlice(last.arg[1], last.arg[2], last.arg[3], last.arg[4])>>

\* the same statement for the list alone
C22_ListNegativeStepSlice ==
  (last.op = "slice" /\ last.arg[1] = "list") => C22_NegativeStepSlice
\* the pieces of s between the occurrences of d, leftmost occurrence first
RECURSIVE Pieces(_, _, _)
Pieces(s, d, piece) ==
  IF s = <<>> THEN <<piece>>
  ELSE IF Len(s) >= Len(d) /\ SubSeq(s, 1, Len(d)) = d
  THEN <<piece>> \o Pieces(SubSeq(s, Len(d) + 1, Len(s)), d, <<>>)
  ELSE Pieces(Tail(s), d, Append(piece, s[1]))

SplitsCleanly(s, d) ==
  /\ Len(Pieces(s, d, <<>>)) >= 2
  /\ \A i \in DOMAIN Pieces(s, d, <<>>) : Pieces(s, d, <<>>)[i] # <<>>

\* C23: for a string s and a delimiter d of one or more characters that
\* occurs in s and splits it into pieces none of which is empty,
\* join(split(s, d), d) is s.
C23_JoinSplitRoundTrip ==
  (last.op = "split" /\ SplitsCleanly(last.arg[1], last.arg[2])) =>
    Declared = <<value_string(string_of(last.arg[1]))>>

\* the same round trip for the delimiters of one character
C23_JoinSplitOneCharacter ==
  (last.op = "split" /\ Len(last.arg[2]) = 1) => C23_JoinSplitRoundTrip
\* C24: an arithmetic or ordering operator applied to an operand that is
\* neither int nor float (a list, void, a bool, a protocol) fails with a
\* runtime error and produces no value: the statement declares void.
C24_TypeMismatchRaises ==
  (last.op = "mismatch") =>
    /\ interp.has_error
    /\ Declared = <<value_null>>
\* C25: the environment a function value captured is live while the
\* function is reachable: calling the nested protocol or the lambda that a
\* protocol returned reads no destroyed environment and finds the binding
\* of n that the call frame held.
C25_CapturedEnvironmentLive ==
  (last.op = "invoke_captured") =>
    /\ ~interp.dangling
    /\ phase # "faulted"
    /\ Declared = <<value_int(last.arg[2])>>
\* the pointer reached from c after n steps along next; 0 is NULL
RECURSIVE Follow(_, _, _)
Follow(next, c, n) ==
  IF c = 0 \/ n = 0 THEN c ELSE Follow(next, next[c], n - 1)

ClassParents == [c \in DOMAIN interp.classes |-> interp.classes[c].parent]
MethodsParents == [c \in DOMAIN interp.classes |-> interp.classes[c].methods_parent]

\* C26: after any sequence of entity statements, following cls->parent from
\* any class reaches a class without parent in finitely many steps, and so
\* does following the parents of the methods environments up to the scope
\* of the entity statement: neither chain has a cycle.
C26_ClassChainAcyclic ==
  \A c \in DOMAIN interp.classes :
    /\ Follow(ClassParents, c, Len(interp.classes)) = 0
    /\ Follow(MethodsParents, c, Len(interp.classes)) = 0

\* P is defined, then redefined naming itself as parent, then Q is defined
\* under it: the parent of the second P is the first P
C26_Witness ==
  /\ last.op = "define"
  /\ Len(interp.classes) = MaxEntities
  /\ interp.classes[2].name = "P" /\ interp.classes[2].parent = 1
  /\ interp.classes[1].name = "P" /\ interp.classes[1].parent = 0
  /\ interp.classes[3].parent = 2
\* the KeikakuInstance the global scope binds n to, in the interpreter I
InstanceOf(I, n) == I.heap[env_get(I.current_env, n).value.ref]
Other(n) == IF n = "a" THEN "b" ELSE "a"

MaxRemaining == 3
RECURSIVE Remaining(_, _, _)
Remaining(I, gen, n) ==
  IF n = 0 THEN <<>>
  ELSE LET r == do_interpreter_gen_next(I, gen)
       IN <<r.val>> \o Remaining(r.I, r.gen, n - 1)

\* C28: the copy value_copy makes of a suspended generator has the resumable
\* state of the original: every name the original's environment binds
\* resolves to the same value in the copy, the frames are the same, and the
\* next advances of the copy return what the next advances of the original
\* return.
C28_CopyResumesAlike ==
  (last.op = "copy" /\ last.pre[1].handle.gen.status = "suspended") =>
    /\ \A i \in DOMAIN last.pre[1].handle.gen.env :
         env_get(<<handle.gen.env>>, last.pre[1].handle.gen.env[i].name)
           = env_get(<<last.pre[1].handle.gen.env>>, last.pre[1].handle.gen.env[i].name)
    /\ handle.gen.stack = last.pre[1].handle.gen.stack
    /\ Remaining(interp, handle.gen, MaxRemaining)
         = Remaining(interp, last.pre[1].handle.gen, MaxRemaining)
\* the value of the argument literal of the program "params"
ArgValue(kind) ==
  CASE kind = "int" -> value_int(4)
    [] kind = "string" -> value_string("abcd")
    [] kind = "list" -> value_list(<<value_int(1), value_int(2)>>)

\* C29: the parameter of a generator is bound in an environment the
\* generator owns: after g = echo(xs), whether or not the caller assigns
\* another value to xs or changes an item of the list, the body of g reads
\* the int, string or list it was called with.
C29_ParameterOwnedByGenerator ==
  (last.op = "read_param") =>
    /\ ~interp.has_error
    /\ Declared = <<ArgValue(last.arg[1])>>

\* the caller has assigned the list [3] to xs, and g still yields [1, 2]
C29_Witness ==
  /\ last.op = "read_param"
  /\ last.arg = <<"list", "assign">>
  /\ Bound("xs") = <<value_list(<<value_int(3)>>)>>
  /\ Declared = <<value_list(<<value_int(1), value_int(2)>>)>>
\* the values of the operand literals of the program "logic"
LeftValues == <<value_int(0), value_int(1), value_string(""), value_list(<<>>)>>
RightValues == <<value_string(""), value_string("r"), value_int(0)>>
LeftTruthy == {2}
RightTruthy == {2}

\* the left operand decides: it is falsy under and, truthy under or
Decided(op, l) == (op = "AND") = (l \notin LeftTruthy)

\* C30: when the left operand of and is falsy, or the left operand of or
\* truthy, the right operand is not evaluated, see(r) declares nothing, and
\* the result is the boolean false, respectively true; otherwise the right
\* operand is evaluated exactly once, after the left, and the result is the
\* truth of the right operand.
C30_ShortCircuit ==
  (last.op = "logic") =>
    IF Decided(last.arg[1], last.arg[2])
    THEN Declared = <<LeftValues[last.arg[2]], value_bool(last.arg[1] = "OR")>>
    ELSE Declared = <<LeftValues[last.arg[2]], RightValues[last.arg[3]],
                      value_bool(last.arg[3] \in RightTruthy)>>

\* 0 and see("r"): only 0 is declared, and false
C30_Witness ==
  /\ last.op = "logic"
  /\ last.arg = <<"AND", 1, 2>>
  /\ Declared = <<value_int(0), value_bool(FALSE)>>

(***************************************************************************)
(* C31: the layout tokens of a source text.                                *)
(***************************************************************************)
RECURSIVE SplitLines(_, _, _)
\* the lines of source from 1-based position i on; line is the open one
SplitLines(source, i, line) ==
  IF i > Len(source) THEN <<line>>
  ELSE IF source[i] = "\n" THEN <<line>> \o SplitLines(source, i + 1, <<>>)
  ELSE SplitLines(source, i + 1, Append(line, source[i]))

\* 1-based number of the line that holds the 0-based offset
LineAt(source, offset) ==
  1 + Cardinality({i \in 1..offset : source[i] = "\n"})

RECURSIVE IndentWidth(_, _)
\* spaces count one, tabs count four
IndentWidth(line, i) ==
  IF i > Len(line) THEN 0
  ELSE IF line[i] = " " THEN 1 + IndentWidth(line, i + 1)
  ELSE IF line[i] = "\t" THEN 4 + IndentWidth(line, i + 1)
  ELSE 0

IsBlank(line) == \A i \in 1..Len(line) : line[i] \in {" ", "\t", "\r"}
IsCommentOnly(line) ==
  \E i \in 1..Len(line) :
    line[i] = "#" /\ \A j \in 1..(i - 1) : line[j] \in {" ", "\t", "\r"}
IsCodeLine(line) == ~IsBlank(line) /\ ~IsCommentOnly(line)

Repeat(x, n) == [i \in 1..n |-> x]

RECURSIVE ExpectedLayout(_, _, _)
\* the INDENT and DEDENT tokens the lines from i on call for, each with the
\* number of its line (0 for the levels closed at the end of the text), when
\* stack is the indentation stack before line i
ExpectedLayout(lines, i, stack) ==
  IF i > Len(lines) THEN Repeat([type |-> "DEDENT", line |-> 0], Len(stack) - 1)
  ELSE IF ~IsCodeLine(lines[i]) THEN ExpectedLayout(lines, i + 1, stack)
  ELSE LET n == IndentWidth(lines[i], 1)
           popped == Cardinality({k \in 1..Len(stack) : stack[k] > n})
       IN IF n > stack[Len(stack)]
          THEN <<[type |-> "INDENT", line |-> i]>>
                 \o ExpectedLayout(lines, i + 1, Append(stack, n))
          ELSE Repeat([type |-> "DEDENT", line |-> i], popped)
                 \o ExpectedLayout(lines, i + 1, SubSeq(stack, 1, Len(stack) - popped))

IsLayout(t) == t.type \in {"INDENT", "DEDENT"}
CountOf(tokens, type) == Cardinality({i \in 1..Len(tokens) : tokens[i].type = type})

\* the layout tokens of the stream, each with the line it was emitted on
Layout(L) ==
  LET layout == SelectSeq(L.tokens, IsLayout)
  IN [i \in 1..Len(layout) |->
        [type |-> layout[i].type,
         line |-> IF layout[i].start >= Len(L.source) THEN 0
                  ELSE LineAt(L.source, layout[i].start)]]

EndsInEOF(L) == L.tokens # <<>> /\ L.tokens[Len(L.tokens)].type = "EOF"

\* the indentation stack is strictly increasing from 0, and every push and
\* pop is matched by one token that is emitted or pending
C31_StackAndBalance ==
  /\ lexer.indent_stack[1] = 0
  /\ \A k \in 1..(Len(lexer.indent_stack) - 1) :
       lexer.indent_stack[k] < lexer.indent_stack[k + 1]
  /\ CountOf(lexer.tokens, "DEDENT") <= CountOf(lexer.tokens, "INDENT")
  /\ CountOf(lexer.tokens, "INDENT") - CountOf(lexer.tokens, "DEDENT")
       = Len(lexer.indent_stack) - 1 + lexer.pending_dedents
  /\ EndsInEOF(lexer) =>
       CountOf(lexer.tokens, "INDENT") = CountOf(lexer.tokens, "DEDENT")

\* C31: for every source text whose token stream ends in EOF the indentation
\* stack is strictly increasing with bottom 0 at all times, the stream has as
\* many DEDENT as INDENT tokens and no prefix with more DEDENTs than INDENTs,
\* and its INDENT and DEDENT tokens are those the code lines call for: one
\* INDENT for a line deeper than the stack top, one DEDENT per level popped,
\* the open levels closed before EOF, none for a blank or comment-only line
C31_IndentationLayout ==
  /\ C31_StackAndBalance
  /\ \A i \in 1..Len(Layout(lexer)) :
       Layout(lexer)[i].line # 0
         => IsCodeLine(SplitLines(lexer.source, 1, <<>>)[Layout(lexer)[i].line])
  /\ EndsInEOF(lexer) =>
       Layout(lexer) = ExpectedLayout(SplitLines(lexer.source, 1, <<>>), 1, <<0>>)

\* the same for the source texts without a carriage return
C31_LayoutWithoutCarriageReturn ==
  (\A i \in 1..Len(lexer.source) : lexer.source[i] # "\r") => C31_IndentationLayout


(***************************************************************************)
(* C32.  A call of an ordinary protocol from inside a running sequence     *)
(* returns normally and pushes no frame on the generator's resume stack:   *)
(* `yield f(x)` suspends once with f's value, the next advance continues   *)
(* with the following statement, and a later call of f runs f's body from  *)
(* its first statement.  For via_call: the advances return 1, 2 and then   *)
(* void with the generator done, the only frame saved is the one of the    *)
(* sequence's own block, and ret declares its argument in each of the two  *)
(* advances that call it.                                                  *)
(***************************************************************************)
C32_CallPushesNoFrame ==
  (phase = "host" /\ subject = "via_call") =>
    /\ AdvancedAsWritten
    /\ (advances \in 1..2) =>
         /\ handle.gen.status = "suspended"
         /\ \A i \in 1..Len(handle.gen.stack) :
              handle.gen.stack[i].node = via_call.body.bid
         /\ (last.op = "gen_next") => Declared = <<value_int(advances)>>
    /\ (advances > 2) => handle.gen.status = "done"

(***************************************************************************)
(* C33.  After a yield inside a foresee or otherwise branch or a situation *)
(* alignment the next advance continues in the same branch after the       *)
(* yield, without evaluating the condition or the scrutinee again and      *)
(* whatever their value has become; when that advance yields or finishes,  *)
(* every saved frame has been consumed and is_resuming is false.  For      *)
(* cond_flip, in_else, in_sit and res_nest: the advances return 1, 2 and   *)
(* then void, and the advances of res_nest after the first make no advance *)
(* of another generator.                                                   *)
(***************************************************************************)
C33_BranchResumesAfterYield ==
  (phase = "host" /\ subject \in {"cond_flip", "in_else", "in_sit", "res_nest"}) =>
    /\ AdvancedAsWritten
    /\ (last.op = "gen_next") =>
         /\ ~interp.adv_log[Len(interp.adv_log)].is_resuming
         /\ interp.adv_log[Len(interp.adv_log)].resume_count = 0
    /\ (last.op = "gen_next" /\ subject = "res_nest" /\ advances >= 2) =>
         Len(interp.adv_log) = 1

(***************************************************************************)
(* C34.  After a yield in the try body of an attempt, directly or inside a *)
(* loop in the try body, the next advance continues with the statement     *)
(* after the yield: no statement of the try body is skipped and none is    *)
(* executed again.  For in_try: the advances return 1, 2 and then void,    *)
(* and declare("t") runs in the second advance only; for loop_try: they    *)
(* return 0, 1 and then void, and declare("p") runs in the first advance   *)
(* only.                                                                   *)
(***************************************************************************)
C34_TryBodyResumesAfterYield ==
  (phase = "host" /\ subject \in {"in_try", "loop_try"}) =>
    /\ AdvancedAsWritten
    /\ (advances \in 1..2) => handle.gen.status = "suspended"
    /\ (advances > 2) => handle.gen.status = "done"
    /\ (last.op = "gen_next") =>
         Declared = IF subject = "in_try" /\ advances = 2 THEN <<value_string("t")>>
                    ELSE IF subject = "loop_try" /\ advances = 1
                    THEN <<value_string("p")>>
                    ELSE <<>>

(***************************************************************************)
(* C35.  After any advance a suspended generator has a non-empty stack of  *)
(* saved frames, and an advance during which a runtime error is raised,    *)
(* in the expression of a yield too, leaves the generator done.            *)
(***************************************************************************)
C35_SuspendedHasFrames ==
  (phase = "host" /\ last.op = "gen_next") =>
    /\ (handle.gen.status = "suspended") => handle.gen.stack # <<>>
    /\ (interp.has_error /\ ~last.pre_error) => handle.gen.status = "done"

(***************************************************************************)
(* C36.  A method call whose only further calls are ascend terminates, and *)
(* ascend moves strictly up from the class that defines the running        *)
(* method, also when the method was inherited: with Leaf inheriting Mid    *)
(* inheriting Root and Mid's m calling ascend m(), m on an instance of Mid *)
(* and on an instance of Leaf runs Mid's body once and returns what Root's *)
(* m yields.                                                               *)
(***************************************************************************)
C36_AscendTerminates ==
  (/\ last.op = "rise"
   /\ ~last.pre_error
   /\ RunsBody(ClassOf(last.pre[1].interp, last.arg))
   /\ Len(class_chain(ClassOf(last.pre[1].interp, last.arg)))
        = (IF last.arg = "a" THEN 2 ELSE 3)) =>
    /\ phase # "hung"
    /\ ~interp.has_error
    /\ Declared = <<value_string("M")>>
    /\ Bound("r")[Len(Bound("r"))] = value_string("R")

(***************************************************************************)
(* C37.  == and != agree with value equality: two strings are equal when   *)
(* their bytes are, two lists when their elements are, values of different *)
(* non-numeric tags are unequal, and != is the negation of ==.             *)
(***************************************************************************)
\* the Value the i-th comparand evaluates to
Comparand(i) == eval_expr(interpreter_create, Comparands[i]).val

C37_EqualityAgrees ==
  (last.op = "equal") =>
    /\ ~interp.has_error
    /\ Declared = <<value_bool((last.arg[1] = "EQ")
                               = value_equals(Comparand(last.arg[2]),
                                              Comparand(last.arg[3])))>>

(***************************************************************************)
(* C38.  The private-name rule covers method calls: a call of a method     *)
(* whose name starts with _ from code whose self is not that instance      *)
(* (top level, a plain protocol, a method bound to another instance) fails *)
(* with the private access error like a read of the member and yields      *)
(* void; through self the call runs the method.  The methods are those     *)
(* whose body runs when called (is_sequence false).                        *)
(***************************************************************************)
C38_PrivateMethodCall ==
  (last.op = "invoke_private" /\ ~last.pre_error /\ ~interp.uninit) =>
    /\ (last.arg \in {"top", "protocol", "other"}) =>
         /\ interp.has_error
         /\ interp.error_buffer = "Access to private member inhibited."
         /\ Declared = <<value_null>>
    /\ (last.arg = "self") =>
         /\ ~interp.has_error
         /\ Declared = <<FieldOf(last.pre[1].interp, "a").value>>

(***************************************************************************)
(* C39.  span ends for all integer arguments and returns a finite list:    *)
(* with step > 0 the values start, start + step, ... below end in          *)
(* ascending order, with step < 0 the values start, start + step, ...      *)
(* above end, and with step = 0 the empty list or an error, also when      *)
(* start > end.  span(end) is span(0, end, 1), span(start, end) is         *)
(* span(start, end, 1).                                                    *)
(***************************************************************************)
SpanStart(args) == IF Len(args) = 1 THEN 0 ELSE args[1]
SpanEnd(args) == IF Len(args) = 1 THEN args[1] ELSE args[2]
SpanStep(args) == IF Len(args) = 3 THEN args[3] ELSE 1
SpanValues(start, end, step) ==
  LET along == {k \in 0..(2 * MaxSpan + 1) :
                  IF step > 0 THEN start + k * step < end
                  ELSE step < 0 /\ start + k * step > end}
  IN [k \in 1..Cardinality(along) |-> value_int(start + (k - 1) * step)]
C39_SpanTerminates ==
  (last.op = "span" /\ ~last.pre_error) =>
    /\ phase # "hung"
    /\ \/ SpanStep(last.arg) = 0 /\ interp.has_error
       \/ /\ ~interp.has_error
          /\ Declared = <<value_list(SpanValues(SpanStart(last.arg), SpanEnd(last.arg),
                                                SpanStep(last.arg)))>>



(***************************************************************************)
(* C40.  For every numeric a, a % 0 raises the same division by zero error *)
(* as a / 0 and a // 0: has_error is set, the message is recorded and the  *)
(* expression yields void; no integer remainder by zero is computed and    *)
(* the process goes on.                                                    *)
(***************************************************************************)
C40_ModuloByZeroRaises ==
  (last.op = "modzero" /\ ~last.pre_error) =>
    /\ phase # "faulted"
    /\ interp.has_error
    /\ interp.error_buffer = DivisionByZero
    /\ Declared = <<value_null>>


====
